---- MODULE Spec2Model ----
(***************************************************************************)
(* sync-subdir: start-up / clean-up sequence of main (src/src/main.rs),    *)
(* the repository state manager (src/src/git.rs) and the commit replay     *)
(* loop of the sync engine (src/src/sync.rs).                              *)
(***************************************************************************)
EXTENDS Integers, Sequences, FiniteSets, TLC

\* ---------------------------------------------------------------- bounds
\* local branch names that may exist in either repository
Branches == {"main", "dev"}
\* stash entries present in the target repository before the run
MaxUserStash == 1
\* number of commits in the history of the source repository
MaxGraph == 4
\* length of the commit list handed to the sync engine
MaxCommits == 3

\* ------------------------------------------------------- Option<T> values
None == <<>>
Some(v) == <<v>>
unwrap_or(o, d) == IF o = None THEN d ELSE o[1]
then_some(b, v) == IF b THEN Some(v) ELSE None
or(a, b) == IF a = None THEN b ELSE a

VARIABLES
    \* ---- main.rs
    pc,          \* position of main
    env,         \* what the file system / object database answers to validation
    config,      \* cli::Config
    repos,       \* repos[r] = [branches, head] for r in {"source","target"}
    head0,       \* HEAD of each repository before the run
    info,        \* GitManager.{source,target}_repo_info
    tgtDirty,    \* state of the target working tree
    tgtStash,    \* stash stack of the target, stash@{0} first
    stashed,     \* main's local `stashed`
    appResult,   \* `result` of run_application
    result,      \* what main returns
    ops,         \* mutating git operations issued so far, in order
    \* ---- sync.rs
    epc,         \* position of sync_commits
    commits,     \* the slice of commits handed to the engine
    dry_run,     \* SyncEngine.dry_run
    idx,         \* loop index i (number of commits handled so far)
    stats,       \* SyncStats
    events,      \* events sent on tx, in order
    ret,         \* return value of sync_commits
    calls,       \* patch pipeline calls made so far: [id, gen, app], in order
    \* ---- event channel between the engine and the foreground
    chan,        \* events accepted by the channel and not yet received
    rx_open,     \* the receiving half still exists
    received,    \* events the foreground has taken from the channel, in order
    \* ---- patch pipeline
    history,     \* history[r]: ids of the commits the replay has written to r
    am,          \* the apply session open on the target: None, or Some(id) while
                 \* the patch of commit id is partly applied to its working tree
    \* ---- git.rs, get_file_changes
    graph,       \* commits of the source repository: graph[c] = [parents, path]
    query,       \* arguments of the get_file_changes call, once made
    resolved,    \* what that call walked and returned
    \* ---- file-copy engine, strip_subdir_prefix
    strip_args,  \* arguments of the strip_subdir_prefix call: [subdir, path]
    strip_ret,   \* its result, once it has returned
    \* ---- file-copy engine, sync_files
    sf_pc,       \* where sync_files is: "idle", "start", "loop", "returned"
    sf_config,   \* the engine's [subdir, sync_delete, dry_run]
    sf_changes,  \* argument file_changes
    sf_selected, \* argument selected_files
    sf_i,        \* pairs of the zipped lists the loop has gone through
    sf_stats,    \* SyncStats
    sf_status,   \* statuses passed to progress_callback, in order
    sf_ret,      \* "none", "Ok" or "Err"
    \* ---- tui.rs App, main.rs run_application
    state,               \* app.state
    file_changes,        \* app.file_changes (tui.rs: commits)
    selected_files,      \* app.selected_files (tui.rs: selected_commits)
    list_state,          \* app.list_state.selected(): None or Some(index from 0)
    loaded_changes,      \* app.loaded_changes
    current_confirmation,\* app.current_confirmation
    should_quit,         \* app.should_quit
    confirmation_result, \* app.confirmation_result
    rpc,                 \* where run_application is: "loop", "Ok", "Err", "panic"
    loads,               \* calls of load_file_changes so far
    handed               \* the lists handed to sync_files so far, in order

mvars == <<pc, env, config, repos, head0, info, tgtDirty, tgtStash, stashed,
           appResult, result, ops>>
evars == <<epc, commits, dry_run, idx, stats, events, ret, calls,
           chan, rx_open, received, history, am>>
vars == <<pc, env, config, repos, head0, info, tgtDirty, tgtStash, stashed,
          appResult, result, ops,
          epc, commits, dry_run, idx, stats, events, ret, calls,
          chan, rx_open, received, history, am,
          graph, query, resolved,
          strip_args, strip_ret,
          sf_pc, sf_config, sf_changes, sf_selected, sf_i, sf_stats, sf_status, sf_ret,
          state, file_changes, selected_files, list_state, loaded_changes,
          current_confirmation, should_quit, confirmation_result, rpc, loads,
           handed>>
rvars == <<graph, query, resolved>>
svars == <<strip_args, strip_ret,
           sf_pc, sf_config, sf_changes, sf_selected, sf_i, sf_stats, sf_status, sf_ret>>
tvars == <<state, file_changes, selected_files, list_state, loaded_changes,
           current_confirmation, should_quit, confirmation_result, rpc, loads,
           handed>>
avars == <<svars, tvars>>

\* ===================================================================== cli.rs

\* the optional arguments as clap hands them over
Matches ==
    { m \in [source_branch : {None} \cup {Some(b) : b \in Branches},
             target_branch : {None} \cup {Some(b) : b \in Branches},
             end_commit : {None, Some("end")},
             create_branch : BOOLEAN,
             no_create_branch : BOOLEAN,
             include_start : BOOLEAN,
             no_include_start : BOOLEAN,
             no_merge : BOOLEAN,
             stash : BOOLEAN,
             dry_run : BOOLEAN] :
        /\ ~(m.create_branch /\ m.no_create_branch)
        /\ ~(m.include_start /\ m.no_include_start) }

\* the command lines that leave the range options (read only when the changes
\* are loaded, main.rs 288-299) at their defaults
StartupMatches ==
    { m \in Matches : ~m.include_start /\ ~m.no_include_start /\ ~m.no_merge }

from_matches(m) ==
    [source_branch |-> m.source_branch,
     target_branch |-> m.target_branch,
     end_commit |-> m.end_commit,
     create_branch |-> or(then_some(m.create_branch, TRUE),
                          then_some(m.no_create_branch, FALSE)),
     include_start |-> or(then_some(m.include_start, TRUE),
                          then_some(m.no_include_start, FALSE)),
     no_merge |-> then_some(m.no_merge, TRUE),
     auto_stash |-> then_some(m.stash, TRUE),
     dry_run |-> m.dry_run]

\* every value of the struct cli::Config (its fields are public Options)
Config ==
    [source_branch : {None} \cup {Some(b) : b \in Branches},
     target_branch : {None} \cup {Some(b) : b \in Branches},
     end_commit : {None, Some("end")},
     create_branch : {None, Some(TRUE), Some(FALSE)},
     include_start : {None, Some(TRUE), Some(FALSE)},
     no_merge : {None, Some(TRUE), Some(FALSE)},
     auto_stash : {None, Some(TRUE), Some(FALSE)},
     dry_run : BOOLEAN]

\* the Config values with the range options unset
StartupConfig == { c \in Config : c.include_start = None /\ c.no_merge = None }

get_default_target_branch(c) ==
    unwrap_or(c.target_branch, unwrap_or(c.source_branch, "main"))

\* ===================================================================== git.rs

RepoNames == {"source", "target"}

get_repository(is_source) == IF is_source THEN "source" ELSE "target"

\* the part of the world the GitManager methods read and write
Git == [repos |-> repos, info |-> info, ops |-> ops, err |-> "none"]

\* the switch without the check that the branch exists
switch_branch_unchecked(g, is_source, branch_name, set_head_ok) ==
    LET r == get_repository(is_source)
        g1 == [g EXCEPT !.ops = Append(@, <<"set_head", r, branch_name>>)]
    IN  IF ~set_head_ok
        THEN [g1 EXCEPT !.err = "Err: Failed to set HEAD to branch"]
        ELSE [g1 EXCEPT !.repos[r].head = branch_name,
                        !.info[IF is_source THEN "source" ELSE "target"].current_branch
                            = branch_name]

switch_branch(g, is_source, branch_name, set_head_ok) ==
    LET r == get_repository(is_source) IN
    IF branch_name \notin g.repos[r].branches
    THEN [g EXCEPT !.err = "Err: Branch does not exist"]
    ELSE LET g1 == [g EXCEPT !.ops = Append(@, <<"set_head", r, branch_name>>)] IN
         IF ~set_head_ok
         THEN [g1 EXCEPT !.err = "Err: Failed to set HEAD to branch"]
         ELSE [g1 EXCEPT !.repos[r].head = branch_name,
                         !.info[IF is_source THEN "source" ELSE "target"].current_branch
                             = branch_name]

create_branch(g, is_target, branch_name, set_head_ok) ==
    LET r == get_repository(is_target) IN
    IF branch_name \in g.repos[r].branches
    THEN [g EXCEPT !.err = "Err: Failed to create branch"]
    ELSE LET g1 == [g EXCEPT !.ops = Append(@, <<"branch", r, branch_name>>),
                             !.repos[r].branches = @ \cup {branch_name}]
             g2 == [g1 EXCEPT !.ops = Append(@, <<"set_head", r, branch_name>>)]
         IN  IF ~set_head_ok
             THEN [g2 EXCEPT !.err = "Err: Failed to set HEAD to new branch"]
             ELSE LET g3 == [g2 EXCEPT !.repos[r].head = branch_name]
                  IN  IF is_target
                      THEN [g3 EXCEPT !.info["target"].current_branch = branch_name]
                      ELSE g3

has_uncommitted_changes(dirty) == dirty # "clean"

restore_original_branches(g, src_head_ok, tgt_head_ok) ==
    LET source_original == g.info["source"].original_branch
        target_original == g.info["target"].original_branch
        g1 == IF g.info["source"].current_branch # source_original
              THEN switch_branch(g, TRUE, source_original, src_head_ok)
              ELSE g
    IN  IF g1.err # "none"
        THEN g1
        ELSE IF g1.info["target"].current_branch # target_original
             THEN switch_branch(g1, FALSE, target_original, tgt_head_ok)
             ELSE g1

\* ==================================================================== main.rs

EnvFields == {"source_exists", "source_git", "target_exists", "target_git",
              "subdir_exists", "source_opens", "target_opens",
              "start_resolves", "end_resolves"}

\* the environment in which exactly the answer `f` is negative
Env(f) == [x \in EnvFields |-> x # f]

\* the checks of validate_config left out
validate_config_unchecked(e) == "Ok"

validate_config(e) ==
    IF ~e["source_exists"] THEN "Err: Source repository does not exist"
    ELSE IF ~e["source_git"] THEN "Err: Source repository is not a git repository"
    ELSE IF ~e["target_exists"] THEN "Err: Target repository does not exist"
    ELSE IF ~e["target_git"] THEN "Err: Target repository is not a git repository"
    ELSE IF ~e["subdir_exists"] THEN "Err: Subdirectory does not exist in source repository"
    ELSE "Ok"

SyncStats_default ==
    [total_commits |-> 0, synced_commits |-> 0, skipped_commits |-> 0]

\* no range has been resolved
ResolverIdle ==
    /\ graph = <<>>
    /\ query = None
    /\ resolved = None

\* sync-subdir-rs/src/sync.rs 17-27
FileStats_default ==
    [total_files |-> 0, synced_files |-> 0, deleted_files |-> 0,
     failed_files |-> 0, skipped_files |-> 0]

\* sync_files has not been called
FilesIdle ==
    /\ sf_pc = "idle"
    /\ sf_config = [subdir |-> <<>>, sync_delete |-> FALSE, dry_run |-> FALSE]
    /\ sf_changes = <<>>
    /\ sf_selected = <<>>
    /\ sf_i = 0
    /\ sf_stats = FileStats_default
    /\ sf_status = <<>>
    /\ sf_ret = "none"

\* strip_subdir_prefix has not been called
StripCallIdle ==
    /\ strip_args = [subdir |-> <<>>, path |-> <<>>]
    /\ strip_ret = None

\* the file-copy engine is not in use
StripIdle == StripCallIdle /\ FilesIdle

\* the components outside main, the replay and the resolver are not in use
\* tui.rs 65-83: App::new; run_application has not been entered
AppNew ==
    /\ state = "ConfigReview"
    /\ file_changes = <<>>
    /\ selected_files = <<>>
    /\ list_state = None
    /\ loaded_changes = FALSE
    /\ current_confirmation = None
    /\ should_quit = FALSE
    /\ confirmation_result = None
    /\ loads = 0
    /\ handed = <<>>

AppIdle ==
    /\ AppNew
    /\ rpc = "idle"

AuxIdle == StripIdle /\ AppIdle

EngineIdle ==
    /\ epc = "idle"
    /\ commits = <<>>
    /\ dry_run = FALSE
    /\ idx = 0
    /\ stats = SyncStats_default
    /\ events = <<>>
    /\ ret = "none"
    /\ calls = <<>>
    /\ chan = <<>>
    /\ rx_open = TRUE
    /\ received = <<>>
    /\ history = [r \in RepoNames |-> <<>>]
    /\ am = None

RepoStates ==
    { r \in [branches : (SUBSET Branches) \ {{}}, head : Branches] :
        r.head \in r.branches }

UserStashes == UNION { [1..n -> {"user"}] : n \in 0..MaxUserStash }

InitWorld ==
    /\ pc = "validate_config"
    /\ repos \in [RepoNames -> RepoStates]
    /\ head0 = [r \in RepoNames |-> repos[r].head]
    /\ info = [r \in RepoNames |-> [current_branch |-> "", original_branch |-> ""]]
    /\ tgtDirty \in {"clean", "tracked", "untracked"}
    /\ tgtStash \in UserStashes
    /\ stashed = FALSE
    /\ appResult = "none"
    /\ result = "none"
    /\ ops = <<>>
    /\ env \in {Env(f) : f \in EnvFields \cup {"none"}}
    /\ (config.end_commit = None => env["end_resolves"])
    /\ EngineIdle
    /\ ResolverIdle
    /\ AuxIdle

\* the program as started from the command line
Init ==
    /\ config \in {from_matches(m) : m \in StartupMatches}
    /\ InitWorld

\* main entered with any value of the Config struct
InitConfig ==
    /\ config \in StartupConfig
    /\ InitWorld

Exit(r) ==
    /\ pc' = "exit"
    /\ result' = r

\* main.rs 31
ValidateConfig ==
    /\ pc = "validate_config"
    /\ LET r == validate_config(env) IN
         IF r = "Ok"
         THEN pc' = "git_new" /\ UNCHANGED result
         ELSE Exit(r)
    /\ UNCHANGED <<env, config, repos, head0, info, tgtDirty, tgtStash, stashed,
                   appResult, ops, evars, rvars, avars>>

\* main.rs 34-35, git.rs 36-57
NewGitManager ==
    /\ pc = "git_new"
    /\ IF env["source_opens"] /\ env["target_opens"]
       THEN /\ info' = [r \in RepoNames |->
                          [current_branch |-> repos[r].head,
                           original_branch |-> repos[r].head]]
            /\ pc' = "validate_commits"
            /\ UNCHANGED result
       ELSE /\ Exit("Err: Failed to initialize Git manager")
            /\ UNCHANGED info
    /\ UNCHANGED <<env, config, repos, head0, tgtDirty, tgtStash, stashed,
                   appResult, ops, evars, rvars, avars>>

\* main.rs 38-41
ValidateCommits ==
    /\ pc = "validate_commits"
    /\ IF ~env["start_resolves"]
       THEN Exit("Err: Invalid commit hash (start)")
       ELSE IF config.end_commit # None /\ ~env["end_resolves"]
       THEN Exit("Err: Invalid commit hash (end)")
       ELSE pc' = "switch_source" /\ UNCHANGED result
    /\ UNCHANGED <<env, config, repos, head0, info, tgtDirty, tgtStash, stashed,
                   appResult, ops, evars, rvars, avars>>

SetGit(g) ==
    /\ repos' = g.repos
    /\ info' = g.info
    /\ ops' = g.ops

\* main.rs 48-50
SwitchSource ==
    /\ pc = "switch_source"
    /\ \E set_head_ok \in BOOLEAN :
         IF config.source_branch # None
         THEN LET g == switch_branch(Git, TRUE, config.source_branch[1], set_head_ok) IN
                /\ SetGit(g)
                /\ IF g.err = "none"
                   THEN pc' = "target_branch" /\ UNCHANGED result
                   ELSE Exit(g.err)
         ELSE /\ pc' = "target_branch"
              /\ UNCHANGED <<repos, info, ops, result>>
    /\ UNCHANGED <<env, config, head0, tgtDirty, tgtStash, stashed, appResult, evars, rvars, avars>>

\* main.rs 52-63
TargetBranch ==
    /\ pc = "target_branch"
    /\ LET target_branch == get_default_target_branch(config) IN
       \E set_head_ok \in BOOLEAN :
         IF target_branch \notin repos["target"].branches
         THEN IF unwrap_or(config.create_branch, TRUE)
              THEN LET g == create_branch(Git, FALSE, target_branch, set_head_ok) IN
                     /\ SetGit(g)
                     /\ IF g.err = "none"
                        THEN pc' = "uncommitted" /\ UNCHANGED result
                        ELSE Exit(g.err)
              ELSE /\ Exit("Err: Target branch does not exist")
                   /\ UNCHANGED <<repos, info, ops>>
         ELSE LET g == switch_branch(Git, FALSE, target_branch, set_head_ok) IN
                /\ SetGit(g)
                /\ IF g.err = "none"
                   THEN pc' = "uncommitted" /\ UNCHANGED result
                   ELSE Exit(g.err)
    /\ UNCHANGED <<env, config, head0, tgtDirty, tgtStash, stashed, appResult, evars, rvars, avars>>

\* git.rs 137-150: stash_save without flags stashes tracked changes only and
\* fails when there is nothing of that kind to stash
stash_changes(dirty, stash) ==
    IF dirty = "tracked"
    THEN [ok |-> TRUE, dirty |-> "clean", stash |-> <<"run">> \o stash]
    ELSE [ok |-> FALSE, dirty |-> dirty, stash |-> stash]

\* git.rs 152-157: stash_pop(0)
pop_stash(dirty, stash, apply_ok) ==
    IF stash # <<>> /\ apply_ok
    THEN [ok |-> TRUE, dirty |-> "tracked", stash |-> Tail(stash)]
    ELSE [ok |-> FALSE, dirty |-> dirty, stash |-> stash]

\* main.rs 65-75
HandleUncommitted ==
    /\ pc = "uncommitted"
    /\ IF has_uncommitted_changes(tgtDirty)
       THEN IF unwrap_or(config.auto_stash, TRUE)
            THEN LET s == stash_changes(tgtDirty, tgtStash) IN
                   /\ ops' = Append(ops, <<"stash_save", "target">>)
                   /\ tgtDirty' = s.dirty
                   /\ tgtStash' = s.stash
                   /\ IF s.ok
                      THEN stashed' = TRUE /\ pc' = "tui_new" /\ UNCHANGED result
                      ELSE Exit("Err: Failed to stash changes") /\ UNCHANGED stashed
            ELSE /\ Exit("Err: Target repository has uncommitted changes")
                 /\ UNCHANGED <<ops, tgtDirty, tgtStash, stashed>>
       ELSE /\ pc' = "tui_new"
            /\ UNCHANGED <<ops, tgtDirty, tgtStash, stashed, result>>
    /\ UNCHANGED <<env, config, repos, head0, info, appResult, evars, rvars, avars>>

\* main.rs 77-81
NewTui ==
    /\ pc = "tui_new"
    /\ \E tui_ok \in BOOLEAN :
         IF tui_ok
         THEN pc' = "run_application" /\ UNCHANGED result
         ELSE Exit("Err: Failed to initialize TUI")
    /\ UNCHANGED <<env, config, repos, head0, info, tgtDirty, tgtStash, stashed,
                   appResult, ops, evars, rvars, avars>>

\* main.rs 84: the interactive run; it reads the source repository and may
\* write files into the target working tree, and yields Ok or an error
RunApplication ==
    /\ pc = "run_application"
    /\ \E r \in {"Ok", "Err: application"}, wrote \in BOOLEAN :
         /\ appResult' = r
         /\ tgtDirty' = IF wrote THEN "tracked" ELSE tgtDirty
    /\ pc' = "cleanup_stash"
    /\ UNCHANGED <<env, config, repos, head0, info, tgtStash, stashed, result,
                   ops, evars, rvars, avars>>

\* main.rs 86-92
CleanupStash ==
    /\ pc = "cleanup_stash"
    /\ IF stashed
       THEN \E apply_ok \in BOOLEAN :
              LET s == pop_stash(tgtDirty, tgtStash, apply_ok) IN
                /\ ops' = Append(ops, <<"stash_pop", "target">>)
                /\ tgtDirty' = s.dirty
                /\ tgtStash' = s.stash
       ELSE UNCHANGED <<ops, tgtDirty, tgtStash>>
    /\ pc' = "restore"
    /\ UNCHANGED <<env, config, repos, head0, info, stashed, appResult, result, evars, rvars, avars>>

\* the restoration whose failure is returned in place of the run's result
RestoreBranches_propagating ==
    /\ pc = "restore"
    /\ \E src_head_ok \in BOOLEAN, tgt_head_ok \in BOOLEAN :
         LET g == restore_original_branches(Git, src_head_ok, tgt_head_ok) IN
           /\ SetGit(g)
           /\ Exit(IF g.err = "none" THEN appResult ELSE g.err)
    /\ UNCHANGED <<env, config, head0, tgtDirty, tgtStash, stashed, appResult, evars, rvars, avars>>

\* main.rs 94-100
RestoreBranches ==
    /\ pc = "restore"
    /\ \E src_head_ok \in BOOLEAN, tgt_head_ok \in BOOLEAN :
         SetGit(restore_original_branches(Git, src_head_ok, tgt_head_ok))
    /\ Exit(appResult)
    /\ UNCHANGED <<env, config, head0, tgtDirty, tgtStash, stashed, appResult, evars, rvars, avars>>

\* ==================================================================== sync.rs

\* subjects a commit of the list may carry
Subjects == {"fix", "feat"}

\* CommitInfo values: the k-th commit of a list has id k
CommitLists ==
    UNION { { [k \in 1..n |-> [id |-> k, subject |-> f[k]]] : f \in [1..n -> Subjects] }
            : n \in 0..MaxCommits }

\* results of GitManager::create_patch_file (patch pipeline, generatePatch)
CreatePatchResults == {"Ok", "PatchGenerationFailed"}

\* results of GitManager::apply_patch_file (patch pipeline, applyPatch)
ApplyPatchResults == {"Ok", "EmptyPatch", "PatchConflict"}

\* the patch applied to the repository it was generated from
apply_patch_file_to_source(h, id, app) ==
    IF app = "Ok" THEN [h EXCEPT !["source"] = Append(@, id)] ELSE h

\* GitManager::apply_patch_file (patch pipeline, applyPatch): Applied adds the
\* commit to the target; EmptyPatch and an aborted Conflict leave it as it was
apply_patch_file(h, id, app) ==
    IF app = "Ok" THEN [h EXCEPT !["target"] = Append(@, id)] ELSE h

\* patch pipeline, abort of the apply in progress: the session is closed and
\* the working tree is as it was before the apply
am_abort(s) == None

\* the apply that returns the Conflict with its session left open
apply_session_left_open(s, app) ==
    IF app = "PatchConflict" THEN s ELSE None

\* GitManager::apply_patch_file (patch pipeline, applyPatch, state handling on
\* Conflict): the session of an apply that ends in Conflict is aborted before
\* the error is returned; Applied and EmptyPatch end the session themselves
apply_session(s, app) ==
    IF app = "PatchConflict" THEN am_abort(s) ELSE None

\* sync.rs 71-79: what one turn of the loop writes to the repositories; the
\* patch is generated into the temporary directory and then applied
pipeline(h, commit, dry, gen, app) ==
    IF dry \/ gen # "Ok" THEN h ELSE apply_patch_file(h, commit.id, app)

Progress(current, total, subject, status) ==
    [type |-> "Progress", current |-> current, total |-> total,
     subject |-> subject, status |-> status]

Completed(st) == [type |-> "Completed", stats |-> st]

Error(kind, id) == [type |-> "Error", kind |-> kind, id |-> id]

\* sync.rs 64, 90, 97, 103, 114: tx.send(event); the result is discarded
send(evs, e) == Append(evs, e)

\* an empty patch counted as synced
count_skipped_as_synced(st) == [st EXCEPT !.synced_commits = @ + 1]

\* an empty patch not counted at all
count_skipped_dropped(st) == st

\* a failing commit counted as skipped before the error is returned
count_failed_as_skipped(st) == [st EXCEPT !.skipped_commits = @ + 1]

\* the events a step has sent: those of `new` that `old` does not have
Sent(old, new) == SubSeq(new, Len(old) + 1, Len(new))

\* tokio UnboundedSender::send as sync.rs uses it: the event is queued while
\* the receiver exists, and refused (the Err is discarded) once it is gone
deliver(ch, open, es) == IF open THEN ch \o es ELSE ch

\* sync.rs 72, 81: a previewed or applied commit
count_synced(st) == [st EXCEPT !.synced_commits = @ + 1]

\* sync.rs 84-87: Err(SyncError::EmptyPatch)
count_skipped(st) == [st EXCEPT !.skipped_commits = @ + 1]

\* sync.rs 88-92, 95-99: any other error leaves the statistics as they are
count_failed(st) == st

\* the loop turn with `continue` on an empty patch: the Progress event of a
\* skipped commit is never sent
sync_one_continue_on_empty(st, evs, commit, i, dry, gen, app) ==
    IF dry
    THEN [stats |-> count_synced(st), err |-> "none",
          events |-> send(evs, Progress(i + 1, st.total_commits, commit.subject, "PREVIEW"))]
    ELSE IF gen = "Ok"
    THEN IF app = "Ok"
         THEN [stats |-> count_synced(st), err |-> "none",
               events |-> send(evs, Progress(i + 1, st.total_commits, commit.subject, "OK"))]
         ELSE IF app = "EmptyPatch"
         THEN [stats |-> count_skipped(st), err |-> "none", events |-> evs]
         ELSE [stats |-> count_failed(st), err |-> app,
               events |-> send(evs, Error("apply", commit.id))]
    ELSE [stats |-> count_failed(st), err |-> gen,
          events |-> send(evs, Error("generate", commit.id))]

\* the loop turn reporting the 0-based index as `current`
sync_one_current_off_by_one(st, evs, commit, i, dry, gen, app) ==
    IF dry
    THEN [stats |-> count_synced(st), err |-> "none",
          events |-> send(evs, Progress(i, st.total_commits, commit.subject, "PREVIEW"))]
    ELSE IF gen = "Ok"
    THEN IF app = "Ok"
         THEN [stats |-> count_synced(st), err |-> "none",
               events |-> send(evs, Progress(i, st.total_commits, commit.subject, "OK"))]
         ELSE IF app = "EmptyPatch"
         THEN [stats |-> count_skipped(st), err |-> "none",
               events |-> send(evs, Progress(i, st.total_commits, commit.subject,
                                             "EMPTY (SKIPPED)"))]
         ELSE [stats |-> count_failed(st), err |-> app,
               events |-> send(evs, Error("apply", commit.id))]
    ELSE [stats |-> count_failed(st), err |-> gen,
          events |-> send(evs, Error("generate", commit.id))]

\* sync.rs 71-108: one turn of the loop over commit number i (0-based) with the
\* given results of patch generation and patch application; err = "none" when
\* the loop goes on
sync_one(st, evs, commit, i, dry, gen, app) ==
    IF dry
    THEN [stats |-> count_synced(st), err |-> "none",
          events |-> send(evs, Progress(i + 1, st.total_commits, commit.subject, "PREVIEW"))]
    ELSE IF gen = "Ok"
    THEN IF app = "Ok"
         THEN [stats |-> count_synced(st), err |-> "none",
               events |-> send(evs, Progress(i + 1, st.total_commits, commit.subject, "OK"))]
         ELSE IF app = "EmptyPatch"
         THEN [stats |-> count_skipped(st), err |-> "none",
               events |-> send(evs, Progress(i + 1, st.total_commits, commit.subject,
                                             "EMPTY (SKIPPED)"))]
         ELSE [stats |-> count_failed(st), err |-> app,
               events |-> send(evs, Error("apply", commit.id))]
    ELSE [stats |-> count_failed(st), err |-> gen,
          events |-> send(evs, Error("generate", commit.id))]

EngineInit ==
    /\ epc = "start"
    /\ commits \in CommitLists
    /\ dry_run \in BOOLEAN
    /\ idx = 0
    /\ stats = SyncStats_default
    /\ events = <<>>
    /\ ret = "none"
    /\ calls = <<>>
    /\ chan = <<>>
    /\ rx_open = TRUE
    /\ received = <<>>
    /\ history = [r \in RepoNames |-> <<>>]
    /\ am = None
    /\ ResolverIdle
    /\ AuxIdle
    \* main is not part of an engine run
    /\ pc = "exit"
    /\ env = Env("none")
    /\ config = from_matches([source_branch |-> None, target_branch |-> None,
                              end_commit |-> None, create_branch |-> FALSE,
                              no_create_branch |-> FALSE,
                              include_start |-> FALSE, no_include_start |-> FALSE,
                              no_merge |-> FALSE, stash |-> FALSE,
                              dry_run |-> dry_run])
    /\ repos = [r \in RepoNames |-> [branches |-> {"main"}, head |-> "main"]]
    /\ head0 = [r \in RepoNames |-> "main"]
    /\ info = [r \in RepoNames |-> [current_branch |-> "main", original_branch |-> "main"]]
    /\ tgtDirty = "clean"
    /\ tgtStash = <<>>
    /\ stashed = FALSE
    /\ appResult = "none"
    /\ result = "none"
    /\ ops = <<>>

\* sync.rs 60-68
SyncStart ==
    /\ epc = "start"
    /\ LET st == [SyncStats_default EXCEPT !.total_commits = Len(commits)] IN
         /\ stats' = st
         /\ IF st.total_commits = 0
            THEN /\ events' = send(events, Completed(st))
                 /\ chan' = deliver(chan, rx_open, Sent(events, events'))
                 /\ ret' = "Ok"
                 /\ epc' = "returned"
            ELSE \E tempdir_ok \in BOOLEAN :
                   /\ UNCHANGED <<events, chan>>
                   /\ IF tempdir_ok
                      THEN epc' = "loop" /\ UNCHANGED ret
                      ELSE epc' = "returned" /\ ret' = "Io"
    /\ UNCHANGED <<commits, dry_run, idx, calls, rx_open, received, history, am, mvars, rvars, avars>>

\* the loop turn that gives up with the send error once the receiver is gone
SyncCommit_stops_on_send_error ==
    /\ epc = "loop"
    /\ idx < Len(commits)
    /\ \E gen \in CreatePatchResults, app \in ApplyPatchResults :
         LET commit == commits[idx + 1]
             r == sync_one(stats, events, commit, idx, dry_run, gen, app)
         IN  /\ stats' = r.stats
             /\ events' = r.events
             /\ chan' = deliver(chan, rx_open, Sent(events, r.events))
             /\ calls' = IF dry_run THEN calls
                         ELSE Append(calls, [id |-> commit.id, gen |-> gen,
                                             app |-> IF gen = "Ok" THEN app ELSE "none"])
             /\ history' = pipeline(history, commit, dry_run, gen, app)
             /\ am' = IF dry_run \/ gen # "Ok" THEN am
                      ELSE apply_session(Some(commit.id), app)
             /\ IF r.err = "none" /\ rx_open
                THEN idx' = idx + 1 /\ UNCHANGED <<epc, ret>>
                ELSE /\ epc' = "returned"
                     /\ ret' = IF r.err = "none" THEN "SendError" ELSE r.err
                     /\ UNCHANGED idx
    /\ UNCHANGED <<commits, dry_run, rx_open, received, mvars, rvars, avars>>

\* sync.rs 70-112
SyncCommit ==
    /\ epc = "loop"
    /\ idx < Len(commits)
    /\ \E gen \in CreatePatchResults, app \in ApplyPatchResults :
         LET commit == commits[idx + 1]
             r == sync_one(stats, events, commit, idx, dry_run, gen, app)
         IN  /\ stats' = r.stats
             /\ events' = r.events
             /\ chan' = deliver(chan, rx_open, Sent(events, r.events))
             /\ calls' = IF dry_run THEN calls
                         ELSE Append(calls, [id |-> commit.id, gen |-> gen,
                                             app |-> IF gen = "Ok" THEN app ELSE "none"])
             /\ history' = pipeline(history, commit, dry_run, gen, app)
             /\ am' = IF dry_run \/ gen # "Ok" THEN am
                      ELSE apply_session(Some(commit.id), app)
             /\ IF r.err = "none"
                THEN idx' = idx + 1 /\ UNCHANGED <<epc, ret>>
                ELSE epc' = "returned" /\ ret' = r.err /\ UNCHANGED idx
    /\ UNCHANGED <<commits, dry_run, rx_open, received, mvars, rvars, avars>>

\* sync.rs 114-115
SyncComplete ==
    /\ epc = "loop"
    /\ idx = Len(commits)
    /\ events' = send(events, Completed(stats))
    /\ chan' = deliver(chan, rx_open, Sent(events, events'))
    /\ ret' = "Ok"
    /\ epc' = "returned"
    /\ UNCHANGED <<commits, dry_run, idx, stats, calls, rx_open, received, history, am, mvars, rvars, avars>>

\* the foreground takes the next event from the channel
Receive ==
    /\ rx_open
    /\ chan # <<>>
    /\ received' = Append(received, Head(chan))
    /\ chan' = Tail(chan)
    /\ UNCHANGED <<epc, commits, dry_run, idx, stats, events, ret, calls, rx_open,
                   history, am, mvars, rvars, avars>>

\* the foreground stops polling and the receiver goes away: what is still
\* queued is never consumed
DropReceiver ==
    /\ rx_open
    /\ rx_open' = FALSE
    /\ chan' = <<>>
    /\ UNCHANGED <<epc, commits, dry_run, idx, stats, events, ret, calls, received,
                   history, am, mvars, rvars, avars>>

EngineNext ==
    \/ SyncStart
    \/ SyncCommit
    \/ SyncComplete
    \/ Receive
    \/ DropReceiver

SpecEngine == EngineInit /\ [][EngineNext]_vars

Next ==
    \/ ValidateConfig
    \/ NewGitManager
    \/ ValidateCommits
    \/ SwitchSource
    \/ TargetBranch
    \/ HandleUncommitted
    \/ NewTui
    \/ RunApplication
    \/ CleanupStash
    \/ RestoreBranches

Spec == Init /\ [][Next]_vars

SpecConfig == InitConfig /\ [][Next]_vars

\* ============================================ replay beside the foreground
\* The replay loop as a unit scheduled beside the foreground loop: a turn of
\* the loop is suspended inside the blocking apply call, and main's clean-up
\* (main.rs 86-98) follows the return of the foreground loop.

\* the state main is in when it enters run_application (main.rs 84), after a
\* start-up that switched the target to dev or left it on main, and stashed
\* a dirty target or found it clean
BridgeInit ==
    /\ epc = "start"
    /\ commits \in CommitLists
    /\ dry_run \in BOOLEAN
    /\ idx = 0
    /\ stats = SyncStats_default
    /\ events = <<>>
    /\ ret = "none"
    /\ calls = <<>>
    /\ chan = <<>>
    /\ rx_open = TRUE
    /\ received = <<>>
    /\ history = [r \in RepoNames |-> <<>>]
    /\ am = None
    /\ ResolverIdle
    /\ AuxIdle
    /\ pc = "run_application"
    /\ env = Env("none")
    /\ head0 = [r \in RepoNames |-> "main"]
    /\ stashed \in BOOLEAN
    /\ \E tb \in Branches :
         /\ config = from_matches([source_branch |-> None, target_branch |-> Some(tb),
                                   end_commit |-> None, create_branch |-> FALSE,
                                   no_create_branch |-> FALSE,
                              include_start |-> FALSE, no_include_start |-> FALSE,
                              no_merge |-> FALSE, stash |-> TRUE,
                                   dry_run |-> dry_run])
         /\ repos = [r \in RepoNames |->
                       [branches |-> Branches,
                        head |-> IF r = "target" THEN tb ELSE "main"]]
         /\ info = [r \in RepoNames |->
                       [current_branch |-> IF r = "target" THEN tb ELSE "main",
                        original_branch |-> "main"]]
         /\ ops = <<<<"set_head", "target", tb>>>>
                    \o (IF stashed THEN <<<<"stash_save", "target">>>> ELSE <<>>)
    /\ tgtDirty = "clean"
    /\ tgtStash = IF stashed THEN <<"run">> ELSE <<>>
    /\ appResult = "none"
    /\ result = "none"

\* sync.rs 70-76, 95-108: a turn of the loop that does not reach the apply
\* call: a previewed commit, or a commit whose patch cannot be generated
SyncCommitNoApply ==
    /\ epc = "loop"
    /\ idx < Len(commits)
    /\ \E gen \in IF dry_run THEN {"Ok"} ELSE {"PatchGenerationFailed"} :
         LET commit == commits[idx + 1]
             r == sync_one(stats, events, commit, idx, dry_run, gen, "Ok")
         IN  /\ stats' = r.stats
             /\ events' = r.events
             /\ chan' = deliver(chan, rx_open, Sent(events, r.events))
             /\ calls' = IF dry_run THEN calls
                         ELSE Append(calls, [id |-> commit.id, gen |-> gen, app |-> "none"])
             /\ history' = pipeline(history, commit, dry_run, gen, "Ok")
             /\ UNCHANGED am
             /\ IF r.err = "none"
                THEN idx' = idx + 1 /\ UNCHANGED <<epc, ret>>
                ELSE epc' = "returned" /\ ret' = r.err /\ UNCHANGED idx
    /\ UNCHANGED <<commits, dry_run, rx_open, received, mvars, rvars, avars>>

\* sync.rs 76-79: the patch was generated and apply_patch_file is called; the
\* turn is suspended in that call
BeginApply ==
    /\ epc = "loop"
    /\ idx < Len(commits)
    /\ ~dry_run
    /\ epc' = "applying"
    /\ am' = Some(commits[idx + 1].id)
    /\ UNCHANGED <<commits, dry_run, idx, stats, events, ret, calls,
                   chan, rx_open, received, history, mvars, rvars, avars>>

\* sync.rs 79-108: apply_patch_file returns and the turn is completed
EndApply ==
    /\ epc = "applying"
    /\ \E app \in ApplyPatchResults :
         LET commit == commits[idx + 1]
             r == sync_one(stats, events, commit, idx, dry_run, "Ok", app)
         IN  /\ stats' = r.stats
             /\ events' = r.events
             /\ chan' = deliver(chan, rx_open, Sent(events, r.events))
             /\ calls' = Append(calls, [id |-> commit.id, gen |-> "Ok", app |-> app])
             /\ history' = pipeline(history, commit, dry_run, "Ok", app)
             /\ am' = apply_session(am, app)
             /\ IF r.err = "none"
                THEN idx' = idx + 1 /\ epc' = "loop" /\ UNCHANGED ret
                ELSE epc' = "returned" /\ ret' = r.err /\ UNCHANGED idx
    /\ UNCHANGED <<commits, dry_run, rx_open, received, mvars, rvars, avars>>

\* the foreground loop returns: told to quit, or done after a terminal event;
\* it yields the replay's error if it has seen one, and its receiver is dropped
ForegroundReturns ==
    /\ pc = "run_application"
    /\ appResult' = IF \E i \in 1..Len(received) : received[i].type = "Error"
                    THEN "Err: application" ELSE "Ok"
    /\ pc' = "cleanup_stash"
    /\ rx_open' = FALSE
    /\ chan' = <<>>
    /\ UNCHANGED <<env, config, repos, head0, info, tgtDirty, tgtStash, stashed,
                   result, ops, epc, commits, dry_run, idx, stats, events, ret,
                   calls, received, history, am, rvars, avars>>

BridgeNext ==
    \/ SyncStart
    \/ SyncCommitNoApply
    \/ BeginApply
    \/ EndApply
    \/ SyncComplete
    \/ Receive
    \/ ForegroundReturns
    \/ CleanupStash
    \/ RestoreBranches

SpecBridge == BridgeInit /\ [][BridgeNext]_vars

\* ================================================== git.rs, get_file_changes
\* Strings are sequences of tokens; a path is <<directory, "/", file>>.

\* the directories a commit may change a file in
Dirs == {"sub", "doc"}

\* a file of its own for every commit
FileNames == <<"f1", "f2", "f3", "f4", "f5", "f6">>

\* the file commit c changes: its own, or one that other commits change too
FilesOf(c) == {FileNames[c], "shared"}

\* the subdirectory argument: with and without a trailing separator, the
\* empty string and "."
Subdirs == {<<"sub">>, <<"sub", "/">>, <<>>, <<".">>}

\* parents of commit c: none for the first commit, one or two earlier commits
\* (first parent first) for the others
ParentChoices(c) ==
    IF c = 1 THEN {<<>>}
    ELSE {<<p>> : p \in 1..(c - 1)}
         \cup {pq \in (1..(c - 1)) \X (1..(c - 1)) : pq[1] # pq[2]}

CommitChoices(c) ==
    {[parents |-> ps, path |-> <<d, "/", f>>] :
        ps \in ParentChoices(c), d \in Dirs, f \in FilesOf(c)}

\* histories of n commits, numbered in the order of their commit times
RECURSIVE GraphsOfLen(_)
GraphsOfLen(n) ==
    IF n = 0 THEN {<<>>}
    ELSE {Append(g, cm) : g \in GraphsOfLen(n - 1), cm \in CommitChoices(n)}

GraphsUpTo(max) == UNION {GraphsOfLen(n) : n \in 1..max}

\* str::trim_end_matches
RECURSIVE trim_end_matches(_, _)
trim_end_matches(str, ch) ==
    IF str # <<>> /\ str[Len(str)] = ch
    THEN trim_end_matches(SubSeq(str, 1, Len(str) - 1), ch)
    ELSE str

\* str::starts_with
starts_with(str, prefix) ==
    Len(prefix) <= Len(str) /\ SubSeq(str, 1, Len(prefix)) = prefix

\* git.rs 196: format!("{}/", subdir.trim_end_matches('/'))
subdir_pattern(subdir) == trim_end_matches(subdir, "/") \o <<"/">>

FileChange(path) == [path |-> path, status |-> "Modified", old_path |-> None]

\* Commit::parent(n): Ok(parent) or Err
parent(g, c, n) ==
    IF n + 1 <= Len(g[c].parents) THEN Some(g[c].parents[n + 1]) ELSE None

\* git.rs 198-208: the lower bound of the range and the flag bound with it
range_start(g, start_oid, include_start) ==
    IF include_start
    THEN IF parent(g, start_oid, 0) # None
         THEN [range_start |-> parent(g, start_oid, 0)[1], include_start_changes |-> TRUE]
         ELSE [range_start |-> start_oid, include_start_changes |-> FALSE]
    ELSE [range_start |-> start_oid, include_start_changes |-> FALSE]

\* commits reachable from c through any parent edge, c included
RECURSIVE Ancestors(_, _)
Ancestors(g, c) ==
    {c} \cup UNION {Ancestors(g, g[c].parents[i]) : i \in 1..Len(g[c].parents)}

\* a set of commits, latest first
RECURSIVE LatestFirst(_)
LatestFirst(S) ==
    IF S = {} THEN <<>>
    ELSE LET m == CHOOSE x \in S : \A y \in S : y <= x
         IN  <<m>> \o LatestFirst(S \ {m})

\* git.rs 211-214: revwalk with push_range("from..to"): what is reachable from
\* `to` and not from `from`, latest first; every parent edge is followed
revwalk(g, from, to) == LatestFirst(Ancestors(g, to) \ Ancestors(g, from))

\* git.rs 228: Vec::reverse
reverse(s) == [i \in 1..Len(s) |-> s[Len(s) + 1 - i]]

\* git.rs 281-330: the deltas of commit c against its first parent (or the
\* empty tree) that lie under the subdirectory are pushed onto changes
process_diff(g, c, pattern, changes) ==
    IF starts_with(g[c].path, pattern)
    THEN Append(changes, FileChange(g[c].path))
    ELSE changes

\* git.rs 232-254: the loop over the walked commits
RECURSIVE process_commits(_, _, _, _, _)
process_commits(g, cs, pattern, exclude_merges, changes) ==
    IF cs = <<>> THEN changes
    ELSE LET c == Head(cs) IN
         IF exclude_merges /\ Len(g[c].parents) > 1
         THEN process_commits(g, Tail(cs), pattern, exclude_merges, changes)
         ELSE process_commits(g, Tail(cs), pattern, exclude_merges,
                              process_diff(g, c, pattern, changes))

\* git.rs 267-276: retain the first change seen for each path
RECURSIVE retain_first_seen(_, _)
retain_first_seen(changes, seen_paths) ==
    IF changes = <<>> THEN <<>>
    ELSE IF Head(changes).path \in seen_paths
         THEN retain_first_seen(Tail(changes), seen_paths)
         ELSE <<Head(changes)>>
                \o retain_first_seen(Tail(changes), seen_paths \cup {Head(changes).path})

\* git.rs 216-229: the walked commits in chronological order
walked_commits(g, start_oid, end_oid, include_start) ==
    reverse(revwalk(g, range_start(g, start_oid, include_start).range_start, end_oid))

\* git.rs 166-279
get_file_changes(g, subdir, start_oid, end_oid, include_start, exclude_merges) ==
    LET pattern == subdir_pattern(subdir)
        rs == range_start(g, start_oid, include_start)
        cs == walked_commits(g, start_oid, end_oid, include_start)
        c1 == process_commits(g, cs, pattern, exclude_merges, <<>>)
        c2 == IF rs.include_start_changes /\ Len(g[start_oid].parents) = 0
              THEN process_diff(g, start_oid, pattern, c1)
              ELSE c1
    IN  retain_first_seen(c2, {})

\* a source history and no call made yet; main and the engine are not part of it
ResolverInit ==
    /\ graph \in GraphsUpTo(MaxGraph)
    /\ query = None
    /\ resolved = None
    /\ AuxIdle
    /\ EngineIdle
    /\ pc = "exit"
    /\ env = Env("none")
    /\ config = from_matches([source_branch |-> None, target_branch |-> None,
                              end_commit |-> None, create_branch |-> FALSE,
                              no_create_branch |-> FALSE,
                              include_start |-> FALSE, no_include_start |-> FALSE,
                              no_merge |-> FALSE, stash |-> FALSE,
                              dry_run |-> FALSE])
    /\ repos = [r \in RepoNames |-> [branches |-> {"main"}, head |-> "main"]]
    /\ head0 = [r \in RepoNames |-> "main"]
    /\ info = [r \in RepoNames |-> [current_branch |-> "main", original_branch |-> "main"]]
    /\ tgtDirty = "clean"
    /\ tgtStash = <<>>
    /\ stashed = FALSE
    /\ appResult = "none"
    /\ result = "none"
    /\ ops = <<>>

\* git.rs 166-279: one call of get_file_changes on the source history
GetFileChanges ==
    /\ query = None
    /\ \E subdir \in Subdirs, start_oid \in 1..Len(graph), end_oid \in 1..Len(graph),
          include_start \in BOOLEAN, exclude_merges \in BOOLEAN :
         /\ query' = Some([subdir |-> subdir, start |-> start_oid, end |-> end_oid,
                           include_start |-> include_start,
                           exclude_merges |-> exclude_merges])
         /\ resolved' =
              Some([range_start |-> range_start(graph, start_oid, include_start).range_start,
                    commits |-> walked_commits(graph, start_oid, end_oid, include_start),
                    changes |-> get_file_changes(graph, subdir, start_oid, end_oid,
                                                 include_start, exclude_merges)])
    /\ UNCHANGED <<graph, mvars, evars, avars>>

ResolverNext == GetFileChanges

SpecResolver == ResolverInit /\ [][ResolverNext]_vars

\* ---- loading the changes with the configured range options ----

LoadGraphLen == 3

\* the command lines that set only the range options
LoadMatches ==
    { m \in Matches : /\ m.source_branch = None /\ m.target_branch = None
                      /\ ~m.create_branch /\ ~m.no_create_branch
                      /\ ~m.stash /\ ~m.dry_run }

\* git.rs 181-182: the end revision; "HEAD" is the newest commit of the source
\* history, any other name resolves to the commit it names
revparse_single(g, rev, named) == IF rev = "HEAD" THEN Len(g) ELSE named

\* main.rs 288-299: the arguments load_file_changes passes to get_file_changes
load_file_changes(cfg, g, subdir, start_oid, named) ==
    LET end_commit == IF cfg.end_commit = None THEN "HEAD" ELSE cfg.end_commit[1]
        include_start == unwrap_or(cfg.include_start, TRUE)
        exclude_merges == unwrap_or(cfg.no_merge, FALSE)
        end_oid == revparse_single(g, end_commit, named)
    IN  [query |-> [subdir |-> subdir, start |-> start_oid, end |-> end_oid,
                    include_start |-> include_start,
                    exclude_merges |-> exclude_merges],
         resolved |-> [range_start |-> range_start(g, start_oid, include_start).range_start,
                       commits |-> walked_commits(g, start_oid, end_oid, include_start),
                       changes |-> get_file_changes(g, subdir, start_oid, end_oid,
                                                    include_start, exclude_merges)]]

LoadInit ==
    /\ graph \in GraphsOfLen(LoadGraphLen)
    /\ query = None
    /\ resolved = None
    /\ AuxIdle
    /\ EngineIdle
    /\ pc = "tui_new"
    /\ env = Env("none")
    /\ config \in {from_matches(m) : m \in LoadMatches}
    /\ repos = [r \in RepoNames |-> [branches |-> {"main"}, head |-> "main"]]
    /\ head0 = [r \in RepoNames |-> "main"]
    /\ info = [r \in RepoNames |-> [current_branch |-> "main", original_branch |-> "main"]]
    /\ tgtDirty = "clean"
    /\ tgtStash = <<>>
    /\ stashed = FALSE
    /\ appResult = "none"
    /\ result = "none"
    /\ ops = <<>>

\* main.rs 288-308: one call of load_file_changes
LoadFileChanges ==
    /\ query = None
    /\ \E subdir \in Subdirs, start_oid \in 1..Len(graph), named \in 1..Len(graph) :
         LET l == load_file_changes(config, graph, subdir, start_oid, named)
         IN  /\ query' = Some(l.query)
             /\ resolved' = Some(l.resolved)
    /\ UNCHANGED <<graph, mvars, evars, avars>>

LoadNext == LoadFileChanges

SpecLoad == LoadInit /\ [][LoadNext]_vars

\* ============================================ file-copy engine (sync.rs)

Chars == {"s", "x", "/"}

MaxPathLen == 3

MaxSubdirLen == 2

\* the strings of at most n characters
Strings(n) == UNION { [1..k -> Chars] : k \in 0..n }

Ok(v) == [ok |-> TRUE, val |-> v]

Err(e) == [ok |-> FALSE, val |-> e]

\* the prefix test that leaves out the separator
strip_subdir_prefix_no_separator(subdir, path) ==
    LET pattern == trim_end_matches(subdir, "/") IN
    IF starts_with(path, pattern)
    THEN Ok(SubSeq(path, Len(pattern) + 1, Len(path)))
    ELSE Err("does not start with subdirectory")

\* sync-subdir-rs/src/sync.rs 228-236
strip_subdir_prefix(subdir, path) ==
    LET pattern == subdir_pattern(subdir) IN
    IF starts_with(path, pattern)
    THEN Ok(SubSeq(path, Len(pattern) + 1, Len(path)))
    ELSE Err("does not start with subdirectory")

StripInit ==
    /\ strip_args \in [subdir : Strings(MaxSubdirLen), path : Strings(MaxPathLen)]
    /\ strip_ret = None
    /\ FilesIdle
    /\ AppIdle
    /\ ResolverIdle
    /\ EngineIdle
    /\ pc = "exit"
    /\ env = Env("none")
    /\ config = from_matches([source_branch |-> None, target_branch |-> None,
                              end_commit |-> None, create_branch |-> FALSE,
                              no_create_branch |-> FALSE,
                              include_start |-> FALSE, no_include_start |-> FALSE,
                              no_merge |-> FALSE, stash |-> FALSE,
                              dry_run |-> FALSE])
    /\ repos = [r \in RepoNames |-> [branches |-> {"main"}, head |-> "main"]]
    /\ head0 = [r \in RepoNames |-> "main"]
    /\ info = [r \in RepoNames |-> [current_branch |-> "main", original_branch |-> "main"]]
    /\ tgtDirty = "clean"
    /\ tgtStash = <<>>
    /\ stashed = FALSE
    /\ appResult = "none"
    /\ result = "none"
    /\ ops = <<>>

\* sync-subdir-rs/src/sync.rs 228-236: one call of strip_subdir_prefix
StripSubdirPrefix ==
    /\ strip_ret = None
    /\ strip_ret' = Some(strip_subdir_prefix(strip_args.subdir, strip_args.path))
    /\ UNCHANGED <<strip_args, sf_pc, sf_config, sf_changes, sf_selected, sf_i,
                   sf_stats, sf_status, sf_ret, mvars, evars, rvars, tvars>>

StripNext == StripSubdirPrefix

SpecStrip == StripInit /\ [][StripNext]_vars

\* ====================================================================== tui.rs

Items == {"a", "b"}

MaxItems == 3

MaxCursor == 4

\* the lists a resolution or a set_commits call can deliver
ItemLists == UNION { [1..n -> Items] : n \in 0..MaxItems }

\* the largest value of the index type
usize_MAX == 2147483647

\* a - b in the index type of a release build: modulo usize_MAX + 1
wrapping_sub(a, b) == IF a >= b THEN a - b ELSE usize_MAX - (b - a - 1)

Builds == {"debug", "release"}

Selected(i) == [selected |-> Some(i), panic |-> FALSE]

\* a subtraction that overflows: a debug build panics there
Overflow == [selected |-> None, panic |-> TRUE]

\* tui.rs 85-89
set_commits(list) ==
    [file_changes |-> list, selected_files |-> [i \in 1..Len(list) |-> TRUE]]

\* next() with the comparison against the list length itself
next_without_wrap(len, sel, build) ==
    IF sel = None THEN Selected(0)
    ELSE IF sel[1] >= len THEN Selected(0) ELSE Selected(sel[1] + 1)

\* tui.rs 91-103
next(len, sel, build) ==
    IF sel = None THEN Selected(0)
    ELSE IF len = 0 /\ build = "debug" THEN Overflow
    ELSE IF sel[1] >= wrapping_sub(len, 1) THEN Selected(0) ELSE Selected(sel[1] + 1)

\* tui.rs 105-117
previous(len, sel, build) ==
    IF sel = None THEN Selected(0)
    ELSE IF sel[1] = 0
         THEN IF len = 0 /\ build = "debug" THEN Overflow
              ELSE Selected(wrapping_sub(len, 1))
         ELSE Selected(sel[1] - 1)

\* a toggle that flips every flag
toggle_every_flag(flags, sel) ==
    IF sel # None /\ sel[1] < Len(flags)
    THEN [i \in 1..Len(flags) |-> ~flags[i]]
    ELSE flags

\* tui.rs 119-125
toggle_commit_selection(flags, sel) ==
    IF sel # None /\ sel[1] < Len(flags)
    THEN [flags EXCEPT ![sel[1] + 1] = ~@]
    ELSE flags

\* tui.rs 127-129
select_all(flags) == [i \in 1..Len(flags) |-> TRUE]

\* tui.rs 131-133
deselect_all(flags) == [i \in 1..Len(flags) |-> FALSE]

\* tui.rs 135-137
get_selected_count(flags) == Cardinality({i \in 1..Len(flags) : flags[i]})

\* main and the other components take no part
MainIdle ==
    /\ ResolverIdle
    /\ StripIdle
    /\ EngineIdle
    /\ pc = "run_application"
    /\ env = Env("none")
    /\ config = from_matches([source_branch |-> None, target_branch |-> None,
                              end_commit |-> None, create_branch |-> FALSE,
                              no_create_branch |-> FALSE,
                              include_start |-> FALSE, no_include_start |-> FALSE,
                              no_merge |-> FALSE, stash |-> FALSE,
                              dry_run |-> FALSE])
    /\ repos = [r \in RepoNames |-> [branches |-> {"main"}, head |-> "main"]]
    /\ head0 = [r \in RepoNames |-> "main"]
    /\ info = [r \in RepoNames |-> [current_branch |-> "main", original_branch |-> "main"]]
    /\ tgtDirty = "clean"
    /\ tgtStash = <<>>
    /\ stashed = FALSE
    /\ appResult = "none"
    /\ result = "none"
    /\ ops = <<>>

\* tui.rs 65-83: a new App whose methods are called in any order
AppInit ==
    /\ AppNew
    /\ rpc = "idle"
    /\ MainIdle

\* what the methods of App leave alone
AppFrame ==
    UNCHANGED <<state, loaded_changes, current_confirmation, should_quit,
                confirmation_result, loads, handed, mvars, evars, rvars, svars>>

\* tui.rs 85-89
SetCommits ==
    /\ rpc = "idle"
    /\ \E list \in ItemLists :
         /\ file_changes' = set_commits(list).file_changes
         /\ selected_files' = set_commits(list).selected_files
    /\ UNCHANGED <<list_state, rpc>>
    /\ AppFrame

\* the cursor move r, or the panic it ends in
Move(r) ==
    /\ IF r.panic THEN TRUE
       ELSE r.selected[1] <= MaxCursor \/ r.selected[1] = usize_MAX
    /\ IF r.panic
       THEN rpc' = "panic" /\ UNCHANGED list_state
       ELSE list_state' = r.selected /\ UNCHANGED rpc

\* tui.rs 91-103
AppNext ==
    /\ rpc = "idle"
    /\ \E build \in Builds : Move(next(Len(file_changes), list_state, build))
    /\ UNCHANGED <<file_changes, selected_files>>
    /\ AppFrame

\* tui.rs 105-117
AppPrevious ==
    /\ rpc = "idle"
    /\ \E build \in Builds : Move(previous(Len(file_changes), list_state, build))
    /\ UNCHANGED <<file_changes, selected_files>>
    /\ AppFrame

\* tui.rs 119-125
ToggleCommitSelection ==
    /\ rpc = "idle"
    /\ selected_files' = toggle_commit_selection(selected_files, list_state)
    /\ UNCHANGED <<file_changes, list_state, rpc>>
    /\ AppFrame

\* tui.rs 127-129
SelectAll ==
    /\ rpc = "idle"
    /\ selected_files' = select_all(selected_files)
    /\ UNCHANGED <<file_changes, list_state, rpc>>
    /\ AppFrame

\* tui.rs 131-133
DeselectAll ==
    /\ rpc = "idle"
    /\ selected_files' = deselect_all(selected_files)
    /\ UNCHANGED <<file_changes, list_state, rpc>>
    /\ AppFrame

AppMethods ==
    \/ SetCommits
    \/ AppNext
    \/ AppPrevious
    \/ ToggleCommitSelection
    \/ SelectAll
    \/ DeselectAll

SpecApp == AppInit /\ [][AppMethods]_vars

\* ================================================== main.rs, run_application

\* what handle_events hands back: a key, or Null when none was pressed
Keys == {"Enter", "q", "Esc", "Up", "Down", "Space", "a", "A", "Null"}

\* outcome of the terminal calls of one turn: all succeed, the draw at the top
\* of the loop fails, or reading the key fails
TermResults == {"ok", "draw_err", "events_err"}

\* what load_file_changes returns
LoadResults == {Err("load")} \cup {Ok(list) : list \in ItemLists}

TuiFrame == UNCHANGED <<mvars, evars, rvars, svars>>

\* main.rs 65-81: the App handed to run_application
TuiInit ==
    /\ AppNew
    /\ rpc = "loop"
    /\ MainIdle

\* every change handed on, whatever its flag
selected_changes_all(changes, flags) == changes

\* main.rs 253-259: the changes whose flag is set, in list order
selected_changes(changes, flags) ==
    LET n == IF Len(changes) < Len(flags) THEN Len(changes) ELSE Len(flags)
        zipped == [i \in 1..n |-> [change |-> changes[i], selected |-> flags[i]]]
        kept == SelectSeq(zipped, LAMBDA z : z.selected)
    IN  [i \in 1..Len(kept) |-> kept[i].change]

\* main.rs 112-127
ConfigReviewTurn ==
    /\ rpc = "loop"
    /\ state = "ConfigReview"
    /\ \E term \in TermResults, key \in Keys :
         IF term # "ok"
         THEN rpc' = "Err" /\ UNCHANGED <<state, should_quit>>
         ELSE IF key = "Enter"
         THEN state' = "FileSelection" /\ UNCHANGED <<rpc, should_quit>>
         ELSE IF key \in {"q", "Esc"}
         THEN should_quit' = TRUE /\ rpc' = "Ok" /\ UNCHANGED state
         ELSE UNCHANGED <<state, rpc, should_quit>>
    /\ UNCHANGED <<file_changes, selected_files, list_state, loaded_changes,
                   current_confirmation, confirmation_result, loads, handed>>
    /\ TuiFrame

\* a load whose failure or empty result leaves the selection screen open
load_on_entry_stays(lr) ==
    IF loaded_changes
    THEN [state |-> state, file_changes |-> file_changes,
          selected_files |-> selected_files, list_state |-> list_state,
          loaded_changes |-> TRUE, loads |-> loads]
    ELSE IF ~lr.ok
    THEN [state |-> state, file_changes |-> file_changes,
          selected_files |-> selected_files, list_state |-> list_state,
          loaded_changes |-> FALSE, loads |-> loads + 1]
    ELSE [state |-> state,
          file_changes |-> set_commits(lr.val).file_changes,
          selected_files |-> set_commits(lr.val).selected_files,
          list_state |-> IF lr.val # <<>> THEN Some(0) ELSE list_state,
          loaded_changes |-> TRUE, loads |-> loads + 1]

\* main.rs 130-156: the changes are loaded on the first entry
load_on_entry(lr) ==
    IF loaded_changes
    THEN [state |-> state, file_changes |-> file_changes,
          selected_files |-> selected_files, list_state |-> list_state,
          loaded_changes |-> TRUE, loads |-> loads]
    ELSE IF ~lr.ok
    THEN [state |-> "Completed", file_changes |-> file_changes,
          selected_files |-> selected_files, list_state |-> list_state,
          loaded_changes |-> FALSE, loads |-> loads + 1]
    ELSE [state |-> IF lr.val # <<>> THEN state ELSE "Completed",
          file_changes |-> set_commits(lr.val).file_changes,
          selected_files |-> set_commits(lr.val).selected_files,
          list_state |-> IF lr.val # <<>> THEN Some(0) ELSE list_state,
          loaded_changes |-> TRUE, loads |-> loads + 1]

\* the Enter key that opens the confirmation whatever is selected
enter_unchecked(a) ==
    [a EXCEPT !.state = "Confirmation", !.confirm = Some("ExecuteSync")]

\* main.rs 168-176
enter(a) ==
    IF get_selected_count(a.selected_files) > 0
    THEN [a EXCEPT !.state = "Confirmation", !.confirm = Some("ExecuteSync")]
    ELSE a

\* main.rs 158-183: the key of the selection screen, applied to the app as
\* the load left it
selection_key(l, key, build) ==
    LET a == [state |-> l.state, selected_files |-> l.selected_files,
              list_state |-> l.list_state, confirm |-> current_confirmation,
              should_quit |-> should_quit, rpc |-> "loop"]
        mv == IF key = "Up" THEN previous(Len(l.file_changes), l.list_state, build)
              ELSE next(Len(l.file_changes), l.list_state, build)
    IN  IF key \in {"Up", "Down"}
        THEN IF mv.panic THEN [a EXCEPT !.rpc = "panic"]
             ELSE [a EXCEPT !.list_state = mv.selected]
        ELSE IF key = "Space"
        THEN [a EXCEPT !.selected_files =
                           toggle_commit_selection(l.selected_files, l.list_state)]
        ELSE IF key = "a" THEN [a EXCEPT !.selected_files = select_all(l.selected_files)]
        ELSE IF key = "A" THEN [a EXCEPT !.selected_files = deselect_all(l.selected_files)]
        ELSE IF key = "Enter" THEN enter(a)
        ELSE IF key \in {"q", "Esc"} THEN [a EXCEPT !.should_quit = TRUE, !.rpc = "Ok"]
        ELSE a

\* main.rs 129-184
FileSelectionTurn ==
    /\ rpc = "loop"
    /\ state = "FileSelection"
    /\ \E term \in TermResults, lr \in LoadResults, key \in Keys, build \in Builds :
         IF term = "draw_err"
         THEN /\ rpc' = "Err"
              /\ UNCHANGED <<state, file_changes, selected_files, list_state,
                             loaded_changes, current_confirmation, should_quit, loads>>
         ELSE LET l == load_on_entry(lr)
                  a == IF term = "events_err"
                       THEN [state |-> l.state, selected_files |-> l.selected_files,
                             list_state |-> l.list_state,
                             confirm |-> current_confirmation,
                             should_quit |-> should_quit, rpc |-> "Err"]
                       ELSE selection_key(l, key, build)
              IN  /\ (a.list_state # None =>
                        a.list_state[1] <= MaxCursor \/ a.list_state[1] = usize_MAX)
                  /\ file_changes' = l.file_changes
                  /\ loaded_changes' = l.loaded_changes
                  /\ loads' = l.loads
                  /\ state' = a.state
                  /\ selected_files' = a.selected_files
                  /\ list_state' = a.list_state
                  /\ current_confirmation' = a.confirm
                  /\ should_quit' = a.should_quit
                  /\ rpc' = a.rpc
    /\ UNCHANGED <<confirmation_result, handed>>
    /\ TuiFrame

\* the answer no that starts the sync all the same
confirmed_always(answer) == TRUE

\* main.rs 195-203: the sync is run when the answer is yes
confirmed(answer) == answer

\* main.rs 185-209, 235-286: the confirmation is asked and, on yes, perform_sync
\* runs to its end inside this turn
ConfirmationTurn ==
    /\ rpc = "loop"
    /\ state = "Confirmation"
    /\ \E term \in {"ok", "draw_err"}, answer \in BOOLEAN,
          validate_ok \in BOOLEAN, sync_ok \in BOOLEAN :
         IF term # "ok" \/ current_confirmation = None
         THEN /\ rpc' = IF term # "ok" THEN "Err" ELSE rpc
              /\ UNCHANGED <<state, current_confirmation, confirmation_result, handed>>
         ELSE /\ confirmation_result' = Some(answer)
              /\ IF ~confirmed(answer)
                 THEN /\ state' = "FileSelection"
                      /\ current_confirmation' = None
                      /\ UNCHANGED <<rpc, handed>>
                 ELSE IF ~validate_ok
                 THEN /\ state' = "Progress"
                      /\ rpc' = "Err"
                      /\ UNCHANGED <<current_confirmation, handed>>
                 ELSE /\ handed' = Append(handed,
                                          selected_changes(file_changes, selected_files))
                      /\ IF sync_ok
                         THEN /\ state' = "Completed"
                              /\ current_confirmation' = None
                              /\ UNCHANGED rpc
                         ELSE /\ state' = "Progress"
                              /\ rpc' = "Err"
                              /\ UNCHANGED current_confirmation
    /\ UNCHANGED <<file_changes, selected_files, list_state, loaded_changes,
                   should_quit, loads>>
    /\ TuiFrame

\* main.rs 216-228
CompletedTurn ==
    /\ rpc = "loop"
    /\ state = "Completed"
    /\ \E term \in TermResults, key \in Keys :
         IF term # "ok" THEN rpc' = "Err"
         ELSE IF key \in {"Enter", "q", "Esc"} THEN rpc' = "Ok"
         ELSE UNCHANGED rpc
    /\ UNCHANGED <<state, file_changes, selected_files, list_state, loaded_changes,
                   current_confirmation, should_quit, confirmation_result, loads,
                   handed>>
    /\ TuiFrame

TuiNext ==
    \/ ConfigReviewTurn
    \/ FileSelectionTurn
    \/ ConfirmationTurn
    \/ CompletedTurn

SpecTui == TuiInit /\ [][TuiNext]_vars

\* ================================= file-copy engine (sync.rs), sync_files

MaxFiles == 2

FileStatuses == {"Added", "Modified", "Deleted", "Renamed", "TypeChanged"}

\* a path under the subdirectory s and one outside it
FilePaths == {<<"s", "/", "x">>, <<"x">>}

\* git.rs 17-21: old_path is set for renamed files only
FileChanges ==
    { c \in [path : FilePaths, status : FileStatuses,
             old_path : {None} \cup {Some(q) : q \in FilePaths}] :
        c.status # "Renamed" => c.old_path = None }

\* what the file system answers for one file
FsStates == [source_exists : BOOLEAN, target_exists : BOOLEAN, io_ok : BOOLEAN]

\* sync-subdir-rs/src/sync.rs 107-195
sync_single_file(cfg, change, fs) ==
    IF change.status \in {"Added", "Modified", "TypeChanged"}
    THEN IF ~fs.source_exists THEN Ok("Skipped")
         ELSE IF cfg.dry_run THEN Ok("Synced")
         ELSE IF ~fs.io_ok THEN Err("io")
         ELSE Ok("Synced")
    ELSE IF change.status = "Deleted"
    THEN IF ~cfg.sync_delete THEN Ok("Skipped")
         ELSE IF cfg.dry_run THEN Ok("Deleted")
         ELSE IF fs.target_exists /\ ~fs.io_ok THEN Err("io")
         ELSE Ok("Deleted")
    ELSE IF change.old_path = None THEN Ok("Skipped")
         ELSE IF ~strip_subdir_prefix(cfg.subdir, change.old_path[1]).ok THEN Err("prefix")
         ELSE IF cfg.dry_run THEN Ok("Synced")
         ELSE IF ~fs.io_ok THEN Err("io")
         ELSE Ok("Synced")

\* the failed file counted nowhere
count_file_uncounted(st, r) ==
    IF ~r.ok THEN st
    ELSE IF r.val = "Synced" THEN [st EXCEPT !.synced_files = @ + 1]
    ELSE IF r.val = "Deleted" THEN [st EXCEPT !.deleted_files = @ + 1]
    ELSE [st EXCEPT !.skipped_files = @ + 1]

\* sync-subdir-rs/src/sync.rs 72-94: the counter for one file's outcome
count_file(st, r) ==
    IF ~r.ok THEN [st EXCEPT !.failed_files = @ + 1]
    ELSE IF r.val = "Synced" THEN [st EXCEPT !.synced_files = @ + 1]
    ELSE IF r.val = "Deleted" THEN [st EXCEPT !.deleted_files = @ + 1]
    ELSE [st EXCEPT !.skipped_files = @ + 1]

\* Iterator::zip stops at the end of the shorter list
zip_len(a, b) == IF Len(a) < Len(b) THEN Len(a) ELSE Len(b)

SyncFilesInit ==
    /\ sf_pc = "start"
    /\ sf_config \in [subdir : {<<"s">>}, sync_delete : BOOLEAN, dry_run : BOOLEAN]
    /\ sf_changes \in UNION { [1..n -> FileChanges] : n \in 0..MaxFiles }
    /\ sf_selected \in UNION { [1..n -> BOOLEAN] : n \in 0..MaxFiles }
    /\ sf_i = 0
    /\ sf_stats = FileStats_default
    /\ sf_status = <<>>
    /\ sf_ret = "none"
    /\ StripCallIdle
    /\ AppIdle
    /\ ResolverIdle
    /\ EngineIdle
    /\ pc = "run_application"
    /\ env = Env("none")
    /\ config = from_matches([source_branch |-> None, target_branch |-> None,
                              end_commit |-> None, create_branch |-> FALSE,
                              no_create_branch |-> FALSE,
                              include_start |-> FALSE, no_include_start |-> FALSE,
                              no_merge |-> FALSE, stash |-> FALSE,
                              dry_run |-> FALSE])
    /\ repos = [r \in RepoNames |-> [branches |-> {"main"}, head |-> "main"]]
    /\ head0 = [r \in RepoNames |-> "main"]
    /\ info = [r \in RepoNames |-> [current_branch |-> "main", original_branch |-> "main"]]
    /\ tgtDirty = "clean"
    /\ tgtStash = <<>>
    /\ stashed = FALSE
    /\ appResult = "none"
    /\ result = "none"
    /\ ops = <<>>

FilesFrame ==
    UNCHANGED <<sf_config, sf_changes, sf_selected, strip_args, strip_ret,
                mvars, evars, rvars, tvars>>

\* sync-subdir-rs/src/sync.rs 56-61
SyncFilesStart ==
    /\ sf_pc = "start"
    /\ LET total == get_selected_count(sf_selected) IN
         /\ sf_stats' = [FileStats_default EXCEPT !.total_files = total]
         /\ IF total = 0
            THEN sf_pc' = "returned" /\ sf_ret' = "Ok"
            ELSE sf_pc' = "loop" /\ UNCHANGED sf_ret
    /\ UNCHANGED <<sf_i, sf_status>>
    /\ FilesFrame

\* sync-subdir-rs/src/sync.rs 63-101: one turn of the loop over the zipped lists
SyncFileTurn ==
    /\ sf_pc = "loop"
    /\ sf_i < zip_len(sf_changes, sf_selected)
    /\ LET change == sf_changes[sf_i + 1] IN
       \E fs \in FsStates :
         IF ~sf_selected[sf_i + 1]
         THEN /\ sf_i' = sf_i + 1
              /\ UNCHANGED <<sf_pc, sf_stats, sf_status, sf_ret>>
         ELSE IF ~strip_subdir_prefix(sf_config.subdir, change.path).ok
         THEN /\ sf_pc' = "returned"
              /\ sf_ret' = "Err"
              /\ UNCHANGED <<sf_i, sf_stats, sf_status>>
         ELSE LET r == sync_single_file(sf_config, change, fs) IN
              /\ sf_stats' = count_file(sf_stats, r)
              /\ sf_status' = Append(sf_status, IF r.ok THEN r.val ELSE "Failed")
              /\ sf_i' = sf_i + 1
              /\ UNCHANGED <<sf_pc, sf_ret>>
    /\ FilesFrame

\* sync-subdir-rs/src/sync.rs 63, 104: the zipped lists are exhausted
SyncFilesDone ==
    /\ sf_pc = "loop"
    /\ sf_i = zip_len(sf_changes, sf_selected)
    /\ sf_pc' = "returned"
    /\ sf_ret' = "Ok"
    /\ UNCHANGED <<sf_i, sf_stats, sf_status>>
    /\ FilesFrame

FilesNext ==
    \/ SyncFilesStart
    \/ SyncFileTurn
    \/ SyncFilesDone

SpecFiles == SyncFilesInit /\ [][FilesNext]_vars

\* ===================================================================== claims

HeadsAsBefore == \A r \in RepoNames : repos[r].head = head0[r]

RunStashOutstanding == \E i \in 1..Len(tgtStash) : tgtStash[i] = "run"

Issued(kind) == \E i \in 1..Len(ops) : ops[i][1] = kind

ValidationErrors ==
    {"Err: Source repository does not exist",
     "Err: Source repository is not a git repository",
     "Err: Target repository does not exist",
     "Err: Target repository is not a git repository",
     "Err: Subdirectory does not exist in source repository",
     "Err: Failed to initialize Git manager",
     "Err: Invalid commit hash (start)",
     "Err: Invalid commit hash (end)"}

\* C1: when the run is over, HEAD of the source and HEAD of the target point to
\* the branch they pointed to before the run.
C1_BranchesRestoredAtExit ==
    pc = "exit" => HeadsAsBefore

\* C2: when the run has stashed the target's changes, a stash pop has been issued
\* by the time the process exits, and no stash entry made by the run is left.
C2_StashPoppedAtExit ==
    (pc = "exit" /\ stashed) => (Issued("stash_pop") /\ ~RunStashOutstanding)

C4_ValidationFailsBeforeMutation ==
    /\ (env # Env("none")) =>
          /\ ops = <<>>
          /\ HeadsAsBefore
          /\ ~RunStashOutstanding
          /\ pc \in {"validate_config", "git_new", "validate_commits", "exit"}
          /\ (pc = "exit" => result \in ValidationErrors)
    /\ (result \in ValidationErrors) => (ops = <<>> /\ env # Env("none"))

C4_Witness ==
    /\ pc = "exit"
    /\ result = "Err: Invalid commit hash (end)"
    /\ config.source_branch # None
    /\ tgtDirty = "tracked"
    /\ ops = <<>>

\* C5: a run that aborts because a requested branch does not exist (source
\* branch unresolved, or target branch missing with creation disabled) has moved
\* neither HEAD and has created no stash entry.
C5_BranchAbortWithoutMutation ==
    (pc = "exit" /\ result \in {"Err: Branch does not exist",
                                "Err: Target branch does not exist"})
        => (HeadsAsBefore /\ ~RunStashOutstanding)

ProgressIdx == {i \in 1..Len(events) : events[i].type = "Progress"}

TerminalIdx == {i \in 1..Len(events) : events[i].type \in {"Completed", "Error"}}

PatchErrors == {"PatchConflict", "PatchGenerationFailed"}

CallsWith(app) == {j \in 1..Len(calls) : calls[j].app = app}

\* C6: a patch conflict or patch-generation failure on commit k stops the replay
\* at once: the pipeline was called for commits 1..k only, the counters have the
\* values they had before commit k, the last event is the Error event for commit
\* k and the engine returns that error.
C6_FailureStopsReplay ==
    /\ [](ret \in PatchErrors =>
            LET k == idx + 1 IN
            /\ epc = "returned"
            /\ Len(calls) = k
            /\ \A j \in 1..k : calls[j].id = commits[j].id
            /\ \A j \in 1..(k - 1) : calls[j].app \in {"Ok", "EmptyPatch"}
            /\ \/ calls[k].gen = "PatchGenerationFailed" /\ calls[k].app = "none"
                    /\ ret = "PatchGenerationFailed"
                    /\ events[Len(events)] = Error("generate", commits[k].id)
               \/ calls[k].gen = "Ok" /\ calls[k].app = "PatchConflict"
                    /\ ret = "PatchConflict"
                    /\ events[Len(events)] = Error("apply", commits[k].id)
            /\ stats.synced_commits = Cardinality(CallsWith("Ok"))
            /\ stats.skipped_commits = Cardinality(CallsWith("EmptyPatch"))
            /\ stats.synced_commits + stats.skipped_commits = k - 1
            /\ TerminalIdx = {Len(events)})
    /\ [][(ret = "none" /\ ret' \in PatchErrors) => stats' = stats]_vars

C6_Witness ==
    /\ ret = "PatchConflict"
    /\ idx = 1
    /\ Len(commits) = 3
    /\ stats.skipped_commits = 1

\* C7: an EmptyPatch outcome adds exactly one to skipped, leaves synced as it
\* was, sends a Progress event and no Error event, and the replay goes on with
\* the next commit of the list.
C7_EmptyPatchSkipsAndContinues ==
    [][(Len(calls') = Len(calls) + 1 /\ calls'[Len(calls')].app = "EmptyPatch") =>
          /\ stats'.skipped_commits = stats.skipped_commits + 1
          /\ stats'.synced_commits = stats.synced_commits
          /\ stats'.total_commits = stats.total_commits
          /\ Len(events') = Len(events) + 1
          /\ events'[Len(events')].type = "Progress"
          /\ events'[Len(events')].status = "EMPTY (SKIPPED)"
          /\ \A i \in 1..Len(events) : events'[i] = events[i]
          /\ ret' = "none"
          /\ epc' = "loop"
          /\ idx' = idx + 1]_vars

C7_Witness ==
    /\ calls # <<>>
    /\ calls[Len(calls)].app = "EmptyPatch"
    /\ idx = 2
    /\ idx < Len(commits)
    /\ stats.skipped_commits = 1
    /\ stats.synced_commits = 1
    /\ epc = "loop"

\* C8: the statistics carried by a Completed event satisfy
\* total = synced + skipped with total the number of commits handed in, every
\* commit being counted in exactly one of the two counters.
C8_CompletedStatsAddUp ==
    \A i \in 1..Len(events) :
        events[i].type = "Completed" =>
            /\ events[i].stats.total_commits = Len(commits)
            /\ events[i].stats.total_commits
                 = events[i].stats.synced_commits + events[i].stats.skipped_commits
            /\ ~dry_run =>
                 /\ events[i].stats.synced_commits = Cardinality(CallsWith("Ok"))
                 /\ events[i].stats.skipped_commits = Cardinality(CallsWith("EmptyPatch"))

C8_Witness ==
    /\ events # <<>>
    /\ events[Len(events)].type = "Completed"
    /\ events[Len(events)].stats.skipped_commits = 2
    /\ events[Len(events)].stats.synced_commits = 1

\* C9: when sync_commits has returned, the events it sent end in exactly one
\* terminal event (Completed or Error) and contain no other terminal event.
C9_ExactlyOneTerminalEvent ==
    epc = "returned" => (events # <<>> /\ TerminalIdx = {Len(events)})

\* loop turns entered so far, the failing one included
Handled == IF ret \in PatchErrors THEN idx + 1 ELSE idx

\* C10 as stated: every commit the engine has handled has exactly one Progress
\* event by the time the engine returns.
C10_ProgressForEveryHandledCommit ==
    epc = "returned" => Cardinality(ProgressIdx) = Handled

\* C10 as amended: one Progress event for each commit handled without a fatal
\* error (applied, skipped or previewed), in list order and before the terminal
\* event; the commit on which generation or application fails has none. A run
\* ending in Completed has sent n Progress events, a run failing on commit k
\* has sent k - 1.
C10_ProgressForEveryFinishedCommit ==
    /\ ProgressIdx = 1..idx
    /\ idx = stats.synced_commits + stats.skipped_commits
    /\ \A i \in ProgressIdx :
          /\ events[i].current = i
          /\ events[i].subject = commits[i].subject
    /\ ret = "Ok" => Cardinality(ProgressIdx) = Len(commits)
    /\ ret \in PatchErrors => Cardinality(ProgressIdx) = Handled - 1

C10_Witness ==
    /\ ret = "PatchGenerationFailed"
    /\ Len(calls) = 3
    /\ Cardinality(ProgressIdx) = 2
    /\ stats.skipped_commits = 1

IsPrefix(a, b) == Len(a) <= Len(b) /\ \A i \in 1..Len(a) : a[i] = b[i]

ReceivedProgress == {i \in 1..Len(received) : received[i].type = "Progress"}

\* C11: the foreground receives the events in the order the engine sent them,
\* none reordered, duplicated or skipped (what it has received is a prefix of
\* what was sent, and with the receiver alive nothing sent is lost), and the
\* k-th Progress event it receives carries current = k, the constant total and
\* the subject of the k-th commit of the list.
C11_ProgressInEmissionOrder ==
    /\ IsPrefix(received, events)
    /\ rx_open => received \o chan = events
    /\ \A k \in ReceivedProgress :
          /\ ReceivedProgress \cap (1..k) = 1..k
          /\ received[k].current = k
          /\ received[k].total = Len(commits)
          /\ received[k].subject = commits[k].subject

C11_Witness ==
    /\ Len(received) = 3
    /\ ReceivedProgress = {1, 2, 3}
    /\ commits[1].subject # commits[2].subject
    /\ received[2].status = "EMPTY (SKIPPED)"

\* C12: a dry run leaves the target repository as it found it: when main
\* returns from a run started with --dry-run, no branch has been created, HEAD
\* of the target is where it was and no stash entry of the run is left.
C12_DryRunLeavesTargetUntouched ==
    (pc = "exit" /\ config.dry_run)
        => /\ ~Issued("branch")
           /\ repos["target"].head = head0["target"]
           /\ ~RunStashOutstanding

\* C13: once the interactive run has produced its result, what main returns is
\* exactly that result, whether or not the stash pop or the branch restoration
\* of the clean-up failed.
C13_CleanupFailureNotPropagated ==
    (pc = "exit" /\ appResult # "none") => result = appResult

\* the run succeeded, the pop failed (the run's stash entry is still there) and
\* the last restoring set_head failed (HEAD is not where it was sent)
C13_Witness ==
    /\ pc = "exit"
    /\ appResult = "Ok"
    /\ result = "Ok"
    /\ Issued("stash_pop")
    /\ RunStashOutstanding
    /\ \E r \in RepoNames :
          /\ ops[Len(ops)] = <<"set_head", r, head0[r]>>
          /\ repos[r].head # head0[r]

\* the run has moved HEAD of repository r away from where it was
MovedHead(r) ==
    \E i \in 1..Len(ops) :
        ops[i][1] = "set_head" /\ ops[i][2] = r /\ ops[i][3] # head0[r]

\* a set_head of r back to its original branch was issued after the run moved it
RestoreAttempted(r) ==
    \E i \in 1..Len(ops), j \in 1..Len(ops) :
        /\ i < j
        /\ ops[i][1] = "set_head" /\ ops[i][2] = r /\ ops[i][3] # head0[r]
        /\ ops[j] = <<"set_head", r, head0[r]>>

\* C14: when the interactive run failed, main has, by the time it returns the
\* error, attempted the stash pop if it made a stash and attempted to put back
\* the branch of each repository it had switched.
C14_CleanupAttemptedBeforeError ==
    (pc = "exit" /\ appResult = "Err: application")
        => /\ result = "Err: application"
           /\ stashed => Issued("stash_pop")
           /\ \A r \in RepoNames : MovedHead(r) => RestoreAttempted(r)

\* the step issues no mutating manager operation on the target repository
NoNewTargetOp ==
    /\ Len(ops') >= Len(ops)
    /\ \A i \in (Len(ops) + 1)..Len(ops') : ops'[i][2] # "target"

C16_ReplayIndependentOfReceiver ==
    /\ epc = "loop" => ENABLED (SyncCommit \/ SyncComplete)
    /\ ret \in {"none", "Ok", "Io"} \cup PatchErrors
    /\ (epc = "returned" /\ ret = "Ok") => idx = Len(commits)
    /\ epc # "start" =>
          /\ stats.total_commits = Len(commits)
          /\ stats.synced_commits = IF dry_run THEN idx ELSE Cardinality(CallsWith("Ok"))
          /\ stats.skipped_commits = Cardinality(CallsWith("EmptyPatch"))

\* the receiver went away before the first event was sent, and the replay
\* still handled all three commits, one of them skipped, and returned Ok
C16_Witness ==
    /\ ~rx_open
    /\ received = <<>>
    /\ epc = "returned"
    /\ ret = "Ok"
    /\ Len(commits) = 3
    /\ Len(events) = 4
    /\ stats.skipped_commits = 1
    /\ stats.synced_commits = 2

\* ids of the commits whose patch was applied, in the order of the calls
RECURSIVE AppliedIds(_)
AppliedIds(cs) ==
    IF cs = <<>> THEN <<>>
    ELSE (IF cs[1].app = "Ok" THEN <<cs[1].id>> ELSE <<>>) \o AppliedIds(Tail(cs))

\* C17: the replay never writes to the source repository: its HEAD stays where
\* it was and no commit is applied to it, while every applied patch lands in
\* the target, in the order of the commit list.
C17_SourceReadOnlyDuringReplay ==
    /\ history["source"] = <<>>
    /\ repos["source"].head = head0["source"]
    /\ history["target"] = AppliedIds(calls)

C17_Witness ==
    /\ epc = "returned"
    /\ Len(calls) = 3
    /\ history["target"] = <<1, 3>>
    /\ history["source"] = <<>>

Q == query[1]

R == resolved[1]

\* the paths of the changes returned
ResultPaths == {R.changes[i].path : i \in 1..Len(R.changes)}

\* the path commit c changes, and whether it lies under the subdirectory asked for
OwnPath(c) == graph[c].path

TouchesSubdir(c) == graph[c].path[1] = "sub"

\* the call names the subdirectory sub, and every commit changes a file of its
\* own, so that a returned path tells which commit it comes from
OwnFiles ==
    /\ Q.subdir \in {<<"sub">>, <<"sub", "/">>}
    /\ \A c \in 1..Len(graph) : graph[c].path[3] = FileNames[c]

\* C18: with includeStart false the walk starts above the start commit and the
\* start commit's own change is not in the result; with includeStart true and
\* a start commit that has a parent the walk starts above its first parent, and
\* the start commit's own change is in the result whenever the start commit is
\* an ancestor of the end commit and changes a path under the subdirectory.
C18_LowerBoundOfRangeWalk ==
    (query # None /\ OwnFiles) =>
        /\ ~Q.include_start =>
              /\ R.range_start = Q.start
              /\ OwnPath(Q.start) \notin ResultPaths
        /\ (Q.include_start /\ graph[Q.start].parents # <<>>) =>
              /\ R.range_start = graph[Q.start].parents[1]
              /\ (Q.start \in Ancestors(graph, Q.end) /\ TouchesSubdir(Q.start))
                    => OwnPath(Q.start) \in ResultPaths

\* C19: when the start commit is a root commit, includeStart is set, the start
\* commit is an ancestor of the end commit and changes a path under the
\* subdirectory, the root commit's own change is in the result.
C19_RootStartIncluded ==
    (/\ query # None
     /\ OwnFiles
     /\ Q.include_start
     /\ graph[Q.start].parents = <<>>
     /\ Q.start \in Ancestors(graph, Q.end)
     /\ TouchesSubdir(Q.start))
        => OwnPath(Q.start) \in ResultPaths

\* commits reachable from c along first-parent edges only, c included
RECURSIVE FirstParentChain(_, _)
FirstParentChain(g, c) ==
    {c} \cup (IF g[c].parents = <<>> THEN {} ELSE FirstParentChain(g, g[c].parents[1]))

\* C20: with no-merge set, nothing is returned from a commit that is not on the
\* first-parent chain of the end commit.
C20_FirstParentOnlySkipsSideBranches ==
    (query # None /\ OwnFiles /\ Q.exclude_merges) =>
        \A c \in 1..Len(graph) :
            c \notin FirstParentChain(graph, Q.end) => OwnPath(c) \notin ResultPaths

\* the changes of the commits of cs that lie under sub, in the order of cs
RECURSIVE ChangesUnderSub(_)
ChangesUnderSub(cs) ==
    IF cs = <<>> THEN <<>>
    ELSE (IF TouchesSubdir(Head(cs)) THEN <<FileChange(OwnPath(Head(cs)))>> ELSE <<>>)
           \o ChangesUnderSub(Tail(cs))

\* a history of four commits in a line, three of them changing a file of their
\* own under sub and one a file elsewhere, resolved from the root commit to the
\* last one with includeStart and no-merge set
ThreeOfFourScenario ==
    /\ query # None
    /\ OwnFiles
    /\ Len(graph) = 4
    /\ \A c \in 2..4 : graph[c].parents = <<c - 1>>
    /\ Cardinality({c \in 1..4 : TouchesSubdir(c)}) = 3
    /\ Q.start = 1
    /\ Q.end = 4
    /\ Q.include_start
    /\ Q.exclude_merges

\* C21: in that scenario the result is exactly the changes of the three
\* commits under sub, oldest first.
C21_ThreeOfFourCommitsResolved ==
    ThreeOfFourScenario =>
        /\ Len(R.changes) = 3
        /\ R.changes = ChangesUnderSub(<<1, 2, 3, 4>>)

\* the walked commits that the loop diffs and that change a path under the
\* subdirectory pattern of the call, in the order walked
RECURSIVE AffectingCommits(_)
AffectingCommits(cs) ==
    IF cs = <<>> THEN <<>>
    ELSE (IF /\ ~(Q.exclude_merges /\ Len(graph[Head(cs)].parents) > 1)
             /\ starts_with(graph[Head(cs)].path, subdir_pattern(Q.subdir))
          THEN <<Head(cs)>> ELSE <<>>)
           \o AffectingCommits(Tail(cs))

\* C22: the result is in chronological order with one entry for each distinct
\* commit that affects the subdirectory: de-duplication removes nothing but a
\* repeated commit, so entry i is the change of the i-th affecting commit.
C22_ChronologicalOnePerCommit ==
    query # None =>
        LET kept == AffectingCommits(R.commits) IN
          /\ \A i \in 1..(Len(R.commits) - 1) : R.commits[i] < R.commits[i + 1]
          /\ Len(R.changes) = Len(kept)
          /\ \A i \in 1..Len(kept) : R.changes[i].path = graph[kept[i]].path

\* C23: when the subdirectory is the empty string or ".", nothing is filtered:
\* the change of every walked commit that the loop diffs is in the result.
C23_EmptySubdirKeepsEverything ==
    (query # None /\ Q.subdir \in {<<>>, <<".">>}) =>
        \A i \in 1..Len(R.commits) :
            ~(Q.exclude_merges /\ Len(graph[R.commits[i]].parents) > 1)
                => graph[R.commits[i]].path \in ResultPaths

OtherRepo(r) == IF r = "source" THEN "target" ELSE "source"

\* C24: in every state the manager can be in, switch_branch on a name that is
\* not a local branch of the addressed repository fails and leaves its HEAD and
\* its current_branch as they were; a switch that succeeds leaves HEAD on the
\* named branch and current_branch equal to the name; either way the other
\* repository and its info are untouched.
C24_SwitchBranchContract ==
    \A is_source \in BOOLEAN, branch_name \in Branches, set_head_ok \in BOOLEAN :
        LET g == switch_branch(Git, is_source, branch_name, set_head_ok)
            r == get_repository(is_source)
            o == OtherRepo(r)
        IN  /\ g.repos[o] = repos[o]
            /\ g.info[o] = info[o]
            /\ branch_name \notin repos[r].branches =>
                  /\ g.err # "none"
                  /\ g.repos[r] = repos[r]
                  /\ g.info[r] = info[r]
            /\ g.err = "none" =>
                  /\ g.repos[r].head = branch_name
                  /\ g.info[r].current_branch = branch_name

\* main asked for a source branch that does not exist: the switch failed and
\* both repositories and the manager's record of the source are as before
C24_Witness ==
    /\ pc = "exit"
    /\ result = "Err: Branch does not exist"
    /\ config.source_branch # None
    /\ config.source_branch[1] \notin repos["source"].branches
    /\ ops = <<>>
    /\ HeadsAsBefore
    /\ info["source"].current_branch = head0["source"]

\* C25: once main's branch switches and creation have succeeded, the manager's
\* current_branch of each repository is the branch its HEAD points to, and
\* original_branch is still the branch found at start-up.
C25_CurrentBranchTracksHead ==
    pc \in {"uncommitted", "tui_new", "run_application", "cleanup_stash", "restore"} =>
        \A r \in RepoNames :
            /\ info[r].current_branch = repos[r].head
            /\ info[r].original_branch = head0[r]

\* C26: stashing a repository that has nothing to stash is a successful no-op,
\* so main fails with the stash error only when there was something to stash.
C26_NothingToStashIsSuccess ==
    (pc = "exit" /\ result = "Err: Failed to stash changes") => tgtDirty = "tracked"

\* C27: with the range flags absent the resolver is called with end = HEAD of
\* the source, with the start commit included and with merge commits excluded
C27_DefaultsWhenFlagsAbsent ==
    query # None =>
        /\ (config.end_commit = None => Q.end = Len(graph))
        /\ (config.include_start = None => Q.include_start)
        /\ (config.no_merge = None => Q.exclude_merges)

\* the operations a step appends to the log of git operations
NewOps == SubSeq(ops', Len(ops) + 1, Len(ops'))

\* C28: the reversals at exit run in the reverse order of the start-up changes
\* (source switch, target switch or creation, stash): the stash pop comes
\* before any branch restoration and the target's branch is restored before
\* the source's; a change that was not made has no reversal: no pop without a
\* stash of this run, no restoration of a repository whose HEAD was not moved.
C28_ReversalsInReverseOrder ==
    [][/\ (pc = "cleanup_stash" /\ ~stashed) => NewOps = <<>>
       /\ pc = "restore" =>
            /\ \A i \in 1..Len(NewOps) :
                 /\ NewOps[i][1] = "set_head"
                 /\ MovedHead(NewOps[i][2])
            /\ \A i, j \in 1..Len(NewOps) :
                 (NewOps[i][2] = "target" /\ NewOps[j][2] = "source") => i < j]_vars

\* C29: the reversals are independent: whatever the outcome of the stash pop
\* and of the other repository's restoration, the restoration step issues the
\* switch back to the original branch for every repository that is recorded as
\* being off it.
C29_ReversalsIndependent ==
    [][pc = "restore" =>
         \A r \in RepoNames :
             info[r].current_branch # info[r].original_branch =>
                 \E i \in 1..Len(NewOps) :
                     NewOps[i] = <<"set_head", r, info[r].original_branch>>]_vars

\* an Error event of a failed apply has been sent
ApplyErrorSent ==
    \E i \in 1..Len(events) : events[i].type = "Error" /\ events[i].kind = "apply"

SubdirName ==
    CHOOSE n \in Strings(MaxSubdirLen) :
        /\ IsPrefix(n, strip_args.subdir)
        /\ (n # <<>> => n[Len(n)] # "/")
        /\ \A i \in (Len(n) + 1)..Len(strip_args.subdir) : strip_args.subdir[i] = "/"

\* C32: strip_subdir_prefix returns the remainder of a path that is the
\* subdirectory's name, then '/', then that remainder, and returns an error for
\* every other path, among them a path that begins with the characters of the
\* name without the separator after them.
C32_StripSubdirPrefix ==
    strip_ret # None =>
        LET path == strip_args.path
            r == strip_ret[1]
        IN  /\ \A rest \in Strings(MaxPathLen) :
                 path = SubdirName \o <<"/">> \o rest => r = Ok(rest)
            /\ (~\E rest \in Strings(MaxPathLen) : path = SubdirName \o <<"/">> \o rest)
                 => ~r.ok

C32_Witness ==
    /\ strip_args = [subdir |-> <<"s">>, path |-> <<"s", "x">>]
    /\ strip_ret # None
    /\ ~strip_ret[1].ok

\* a step hands a list to the sync engine
SyncStarted == Len(handed') > Len(handed)

\* C33: a step starts the sync only from the Confirmation state with the
\* answer yes recorded, and only if none was started before; the Confirmation
\* state is entered only from the selection state with at least one flag set.
C33_SyncOnlyAfterConfirmedYes ==
    [][/\ SyncStarted =>
            /\ state = "Confirmation"
            /\ confirmation_result' = Some(TRUE)
            /\ handed = <<>>
       /\ (state # "Confirmation" /\ state' = "Confirmation") =>
            /\ state = "FileSelection"
            /\ get_selected_count(selected_files') > 0]_vars

C33_Witness ==
    /\ Len(handed) = 1
    /\ state = "Completed"
    /\ confirmation_result = Some(TRUE)
    /\ rpc = "Ok"

\* C34: once the resolution has failed or delivered an empty list the
\* application is in the Completed state and no sync has been started,
\* whatever keys follow; a step never leaves the Completed state other than by
\* returning from run_application.
C34_NothingToSyncEndsInCompleted ==
    [][/\ (loads' >= 1 /\ file_changes' = <<>>) =>
            /\ state' = "Completed"
            /\ handed' = <<>>
       /\ state = "Completed" => state' = "Completed"]_vars

C34_Witness ==
    /\ loads = 1
    /\ file_changes = <<>>
    /\ ~loaded_changes
    /\ state = "Completed"
    /\ list_state = Some(0)
    /\ rpc = "Ok"

\* the confirmation was answered no in this step
AnsweredNo ==
    /\ state = "Confirmation"
    /\ state' # "Confirmation"
    /\ confirmation_result' = Some(FALSE)

\* C35: the answer no (or Esc) leads back to the selection state with the
\* loaded list and every selection flag as they were, without a new
\* resolution; the changes are loaded at most once in a run.
C35_NoReturnsToSelection ==
    [][/\ AnsweredNo =>
            /\ state' = "FileSelection"
            /\ file_changes' = file_changes
            /\ selected_files' = selected_files
            /\ loaded_changes'
            /\ loads' = loads
       /\ loads' <= 1]_vars

C35_Witness ==
    /\ state = "Confirmation"
    /\ confirmation_result = Some(FALSE)
    /\ loads = 1
    /\ selected_files = <<TRUE, FALSE>>

\* the items of ch whose flag in fl is set, taken front to back
RECURSIVE SelectedInOrder(_, _)
SelectedInOrder(ch, fl) ==
    IF ch = <<>> THEN <<>>
    ELSE (IF fl[1] THEN <<ch[1]>> ELSE <<>>) \o SelectedInOrder(Tail(ch), Tail(fl))

\* C36: the list handed to the sync engine is the loaded list with the items
\* whose flag is false left out and nothing else changed: every selected item
\* once, in list order.
C36_HandedAreTheSelected ==
    [][SyncStarted =>
         /\ Len(selected_files) = Len(file_changes)
         /\ handed'[Len(handed')] = SelectedInOrder(file_changes, selected_files)]_vars

C36_Witness ==
    /\ file_changes = <<"a", "b", "a">>
    /\ selected_files = <<TRUE, FALSE, TRUE>>
    /\ handed = << <<"a", "a">> >>

\* the number of true flags in fl, counted front to back
RECURSIVE CountTrue(_)
CountTrue(fl) ==
    IF fl = <<>> THEN 0 ELSE (IF fl[1] THEN 1 ELSE 0) + CountTrue(Tail(fl))

\* C37: whatever methods of App have been called, the selection vector is as
\* long as the list and get_selected_count is the number of true flags;
\* set_commits leaves every flag true; a toggle flips the flag at the cursor
\* and changes no other flag.
C37_SelectionVectorKept ==
    [][/\ Len(selected_files') = Len(file_changes')
       /\ get_selected_count(selected_files') = CountTrue(selected_files')
       /\ SetCommits => \A i \in 1..Len(file_changes') : selected_files'[i]
       /\ ToggleCommitSelection =>
            /\ Len(selected_files') = Len(selected_files)
            /\ \A i \in 1..Len(selected_files) :
                 selected_files'[i] =
                     IF list_state = Some(i - 1) THEN ~selected_files[i]
                     ELSE selected_files[i]]_vars

C37_Witness ==
    /\ file_changes = <<"a", "b", "a">>
    /\ selected_files = <<TRUE, FALSE, TRUE>>
    /\ list_state = Some(1)
    /\ rpc = "idle"

\* the cursor is unset or an index of the list
ValidCursor ==
    list_state = None \/ (0 <= list_state[1] /\ list_state[1] < Len(file_changes))

\* C38: a call of next or previous made with the cursor unset or valid leaves
\* it unset or valid, for every list length, the empty list included, and the
\* index arithmetic of the call does not overflow.
C38_CursorStaysValid ==
    [][(AppNext \/ AppPrevious) =>
         (ValidCursor => (ValidCursor' /\ rpc' # "panic"))]_vars

CountedFiles ==
    sf_stats.synced_files + sf_stats.deleted_files
        + sf_stats.failed_files + sf_stats.skipped_files

FailedStatuses == {i \in 1..Len(sf_status) : sf_status[i] = "Failed"}

\* C39 as stated: whenever sync_files returns Ok, total_files is the sum of the
\* four outcome counters, for every change list and selection list.
C39_StatsAddUpForEveryPair ==
    sf_ret = "Ok" => sf_stats.total_files = CountedFiles

\* C39 as amended: every file whose sync failed is counted under failed_files
\* and the loop goes on after it; sync_files returns an error only for a
\* selected change whose path is outside the subdirectory; and when it returns
\* Ok for a selection list that is not longer than the change list,
\* total_files is the sum of the four outcome counters.
C39_StatsAddUpForMatchingLists ==
    /\ sf_stats.failed_files = Cardinality(FailedStatuses)
    /\ CountedFiles = Len(sf_status)
    /\ sf_ret = "Err" =>
         /\ sf_selected[sf_i + 1]
         /\ ~starts_with(sf_changes[sf_i + 1].path, <<"s", "/">>)
    /\ (sf_ret = "Ok" /\ Len(sf_selected) <= Len(sf_changes)) =>
         sf_stats.total_files = CountedFiles

C39_Witness ==
    /\ sf_ret = "Ok"
    /\ sf_status = <<"Failed", "Synced">>
    /\ sf_stats.total_files = 2
    /\ sf_stats.failed_files = 1
    /\ sf_stats.synced_files = 1

====
